---- MODULE Spec2Model ----
(***************************************************************************)
(* Model of sync-node: the Trello <-> Notion synchronisation engine        *)
(* (sync/syncEngine.js), its mapping utilities (utils/mapping.js), the     *)
(* two service clients (services/trello.js, services/notion.js) and the    *)
(* webhook receiver (webhook/webhookServer.js).                            *)
(*                                                                         *)
(* The two remote stores are part of the state: `cards` is the Trello      *)
(* board, `entries` the Notion database.  A pass (performSync) is a        *)
(* process: it suspends at every await, so each action below is the code    *)
(* that runs for one record of one loop, with the remote calls it makes.   *)
(* A remote call may fail; a failure is an input of the action.            *)
(*                                                                         *)
(* Numbers are integers in thousandths (1000 stands for 1.0), so that the  *)
(* tolerance 0.001 of hasChanged is one unit.                              *)
(***************************************************************************)
EXTENDS Integers, Sequences, FiniteSets, TLC

\* ------------------------------------------------------------- bounds
\* Passes started in one behaviour.
MaxPasses == 2
\* Remote calls that fail in one behaviour.
MaxFailures == 1

\* ---------------------------------------------------------- constants
\* hasChanged: Math.abs(value1 - value2) > 0.001, in thousandths.
Tolerance == 1

\* mapTrelloToNotion / mapNotionToTrello / shouldUpdateNotionEntry: the
\* numeric fields, in the order the code names them.
NumFields == <<"Reach", "Confidence", "Effort", "Impact">>

NumFieldSet == {NumFields[k] : k \in 1..Len(NumFields)}

\* removeProblematicCards: the "Content / Curriculum" list.
ContentCurriculumListId == "686df2204803664e4331f70d"

DoingListId == "list-doing"

\* A list whose name is the canonical form of an integer.
YearListId == "list-2024"

\* The lists of the board, in the order the Trello API returns them.
BoardLists ==
  << [id |-> DoingListId, name |-> "Doing"],
     [id |-> ContentCurriculumListId, name |-> "Content / Curriculum"],
     [id |-> YearListId, name |-> "2024"] >>

\* Card ids of the board at the start, and the ids Trello gives to new cards.
CardC1 == "686df-1"

CardC2 == "688bc-2"

NewCardIds == <<"new-1", "new-2", "new-3", "new-4", "new-5", "new-6", "new-7", "new-8">>

\* Entry (page) ids of the database at the start, and the ids Notion gives
\* to new pages; clean is the id with its dashes removed.
EntryE1 == "e-1"

EntryE2 == "e-2"

NewEntryIds == <<"p-1", "p-2", "p-3", "p-4", "p-5", "p-6", "p-7", "p-8">>

\* A cross-reference id that is the id of no card.
GoneCardId == "686df-gone"

Abs(n) == IF n < 0 THEN -n ELSE n

RECURSIVE SeqFilter(_, _)
\* The elements of s in set keep, in order.
SeqFilter(s, keep) ==
  IF s = <<>> THEN <<>>
  ELSE IF Head(s) \in keep THEN <<Head(s)>> \o SeqFilter(Tail(s), keep)
       ELSE SeqFilter(Tail(s), keep)

\* The last index of a non-empty set of indices: in map[key] = value over a
\* listing, the last element of a key wins.
LastIndex(indices) == CHOOSE k \in indices : \A j \in indices : j <= k

\* ------------------------------------------------------ JavaScript values
\* null; undefined and NaN follow (hasChanged and the mappers treat null and
\* undefined alike).
Null == [null |-> TRUE]

Num(n) == [num |-> n]

Str(s) == [str |-> s]

Bool(b) == [bool |-> b]

Undefined == [undefined |-> TRUE]

NaN == [nan |-> TRUE]

IsNull(v) == DOMAIN v = {"null"}

\* v == null in JavaScript: null or undefined.
IsNullish(v) == IsNull(v) \/ v = Undefined

IsNum(v) == DOMAIN v = {"num"}

IsStr(v) == DOMAIN v = {"str"}

IsBool(v) == DOMAIN v = {"bool"}

\* The numbers of the model (thousandths).
NumValues == {0, 1000, 1001, 1002, 2000, 42000}

\* The numbers the model computes the double of are below MaxDouble
\* thousandths in absolute value.
MaxDouble == 1024000

\* String.prototype.trim on the strings of the model: the padded titles.
Trim(s) ==
  CASE s = "A " -> "A"
    [] s = " B" -> "B"
    [] OTHER -> s

\* String(value).
JsString(v) ==
  CASE IsStr(v) -> v.str
    [] IsNum(v) -> ToString(v.num)
    [] IsBool(v) -> IF v.bool THEN "true" ELSE "false"
    [] v = Undefined -> "undefined"
    [] v = NaN -> "NaN"
    [] OTHER -> "null"

\* Number(value) of a numeric string, a number or a boolean.
JsNumber(v) ==
  CASE IsNum(v) -> v.num
    [] IsStr(v) -> CHOOSE n \in NumValues : ToString(n) = v.str
    [] IsBool(v) -> IF v.bool THEN 1000 ELSE 0
    [] OTHER -> 0

\* JavaScript truthiness.
Truthy(v) ==
  CASE IsNullish(v) \/ v = NaN -> FALSE
    [] IsStr(v) -> v.str # ""
    [] IsNum(v) -> v.num # 0
    [] IsBool(v) -> v.bool
    [] OTHER -> TRUE

\* ------------------------------------------------------- utils/mapping.js
\* typeof v === 'number': a number or NaN.
TypeofNumber(v) == IsNum(v) \/ v = NaN

\* Math.abs(a - b) > 0.001 on the doubles nearest to a/1000 and b/1000 (a and
\* b in thousandths, below MaxDouble). More than a thousandth apart the
\* doubles differ by more than the double 0.001 and less than a thousandth
\* apart by less; exactly a thousandth apart the subtraction of the two
\* doubles is exact, and the result is the sum of the double 0.001 and of the
\* rounding errors of the operands, which is compared with the double 0.001.
\* exponent(n) is the e with 2^e <= n/1000 < 2^(e+1); error(n) is the
\* rounding error of the double nearest to n/1000 (round to nearest, ties to
\* even) in units of 2^(e-52)/1000, and scaled(n) the same in units of
\* 2^(-62)/1000.
ExceedsTolerance(a, b) ==
  LET RECURSIVE exponent(_), power(_, _)
      exponent(n) == IF n >= 2000 THEN 1 + exponent(n \div 2)
                     ELSE IF n < 1000 THEN exponent(2 * n) - 1
                     ELSE 0
      power(k, m) == IF k = 0 THEN 1 ELSE (2 * power(k - 1, m)) % m
      error(n) ==
        IF n = 0 THEN 0
        ELSE LET x   == ((n % 2000) * power(52 - exponent(n), 2000)) % 2000
                 rem == x % 1000
             IN  IF rem < 500 THEN -rem
                 ELSE IF rem > 500 THEN 1000 - rem
                 ELSE IF x >= 1000 THEN 500 ELSE -500
      scaled(n) == IF n = 0 THEN 0 ELSE error(n) * power(exponent(n) + 10, 2 * MaxDouble)
      hi == IF Abs(a) > Abs(b) THEN Abs(a) ELSE Abs(b)
  IN  IF Abs(a - b) # Tolerance THEN Abs(a - b) > Tolerance
      ELSE scaled(hi) - scaled(hi - Tolerance) > scaled(Tolerance)

\* A variant of hasChanged that takes a difference of exactly the tolerance
\* for a change.
hasChangedInclusive(value1, value2) ==
  IF IsNullish(value1) /\ IsNullish(value2) THEN FALSE
  ELSE IF IsNullish(value1) \/ IsNullish(value2) THEN TRUE
  ELSE IF TypeofNumber(value1) /\ TypeofNumber(value2)
       THEN /\ IsNum(value1) /\ IsNum(value2)
            /\ Abs(value1.num - value2.num) >= Tolerance
       ELSE Trim(JsString(value1)) # Trim(JsString(value2))

\* hasChanged(value1, value2). A comparison with NaN is false.
hasChanged(value1, value2) ==
  IF IsNullish(value1) /\ IsNullish(value2) THEN FALSE
  ELSE IF IsNullish(value1) \/ IsNullish(value2) THEN TRUE
  ELSE IF TypeofNumber(value1) /\ TypeofNumber(value2)
       THEN /\ IsNum(value1) /\ IsNum(value2)
            /\ ExceedsTolerance(value1.num, value2.num)
       ELSE Trim(JsString(value1)) # Trim(JsString(value2))

\* A variant of mapTrelloToNotion that leaves the numeric fields out.
mapTrelloToNotionWithoutNumbers(trelloCard, customFields, listName) ==
  [ title    |-> trelloCard.name,
    dept     |-> listName,
    trelloId |-> trelloCard.id,
    num      |-> [f \in {} |-> [num |-> 0]],
    synced   |-> TRUE ]

\* mapTrelloToNotion(trelloCard, customFields, listName): the properties of a
\* Notion page.  customFields is a function from the field names found on the
\* card to their values; a numeric field is set only when its value is not
\* null, and is coerced with Number().
mapTrelloToNotion(trelloCard, customFields, listName) ==
  [ title    |-> IF trelloCard.name # "" THEN trelloCard.name ELSE "",
    dept     |-> IF listName # "" THEN listName ELSE "Unknown",
    trelloId |-> trelloCard.id,
    num      |-> [f \in {g \in NumFieldSet \cap DOMAIN customFields : ~IsNullish(customFields[g])}
                    |-> Num(JsNumber(customFields[f]))],
    synced   |-> TRUE ]

\* A variant of mapNotionToTrello that takes a field of value 0 for unset.
mapNotionToTrelloTruthyNumbers(notionEntry) ==
  [ update |-> [name |-> IF notionEntry.title # "" THEN Str(notionEntry.title) ELSE Null],
    customFields |->
      [k \in 1..Len(SeqFilter(NumFields, {f \in NumFieldSet : Truthy(notionEntry.num[f])}))
         |-> LET f == SeqFilter(NumFields, {g \in NumFieldSet : Truthy(notionEntry.num[g])})[k]
             IN  <<f, notionEntry.num[f]>>]
      \o << <<"synced", Bool(TRUE)>> >> ]

\* mapNotionToTrello(notionEntry): update.name (Null when the title is empty)
\* and customFields as the sequence of <<name, value>> in insertion order:
\* the numeric fields that are set, then synced = true.
mapNotionToTrello(notionEntry) ==
  [ update |-> [name |-> IF notionEntry.title # "" THEN Str(notionEntry.title) ELSE Null],
    customFields |->
      [k \in 1..Len(SeqFilter(NumFields, {f \in NumFieldSet : ~IsNullish(notionEntry.num[f])}))
         |-> LET f == SeqFilter(NumFields, {g \in NumFieldSet : ~IsNullish(notionEntry.num[g])})[k]
             IN  <<f, notionEntry.num[f]>>]
      \o << <<"synced", Bool(TRUE)>> >> ]

\* The id Trello gives the custom field of a name.
FieldId(name) == "cf:" \o name

\* The value a custom field item holds, as extractTrelloCustomFields reads it:
\* number, then text, then checked ('true'/'false'), else the default 0.
ItemValue(item) ==
  CASE item.k = "number" -> Str(item.v)
    [] item.k = "text" -> Str(item.v)
    [] item.k = "checked" -> Bool(item.v = "true")
    [] OTHER -> Num(0)

\* extractTrelloCustomFields(trelloCard, boardCustomFields): the values of the
\* card's items whose field id is one of the board's definitions, by name.
extractTrelloCustomFields(trelloCard, boardCustomFields) ==
  [name \in {n \in boardCustomFields : FieldId(n) \in DOMAIN trelloCard.items}
     |-> ItemValue(trelloCard.items[FieldId(name)])]

\* ------------------------------------------------------ the remote stores
\* A Trello card.  items is customFieldItems: field id -> [k, v], v being the
\* string Trello stores (numbers and checkboxes are strings in its API).
NoItems == [x \in {} |-> [k |-> "number", v |-> ""]]

NewCard(id, name, idList, date) ==
  [id |-> id, name |-> name, idList |-> idList, date |-> date,
   items |-> NoItems, deleted |-> FALSE]

\* A Notion page of the database.  num and total hold Null or Num(n); total
\* is the "Total Score" formula, which Notion computes and this program only
\* reads.
NoNums == [f \in NumFieldSet |-> Null]

CardOrder == <<CardC1, CardC2>> \o NewCardIds

EntryOrder == <<EntryE1, EntryE2>> \o NewEntryIds

\* The id with its dashes removed: pageId.replace(/-/g, '').
CleanPageId(pageId) ==
  CASE pageId = "e-1" -> "e1" [] pageId = "e-2" -> "e2"
    [] pageId = "p-1" -> "p1" [] pageId = "p-2" -> "p2"
    [] pageId = "p-3" -> "p3" [] pageId = "p-4" -> "p4"
    [] pageId = "p-5" -> "p5" [] pageId = "p-6" -> "p6"
    [] pageId = "p-7" -> "p7" [] pageId = "p-8" -> "p8"
    [] OTHER -> pageId

\* NotionService.generateNotionPageUrl(pageId).
generateNotionPageUrl(pageId) == "https://www.notion.so/" \o CleanPageId(pageId)

MaxDate(cs) ==
  IF DOMAIN cs = {} THEN 0
  ELSE CHOOSE d \in {cs[c].date : c \in DOMAIN cs} : \A c \in DOMAIN cs : cs[c].date <= d

\* The next id of a pool (a sequence) that is not in use.
FreshId(pool, used) ==
  pool[CHOOSE k \in 1..Len(pool) : pool[k] \notin used /\ \A j \in 1..(k - 1) : pool[j] \in used]

HasFreshId(pool, used) == {k \in 1..Len(pool) : pool[k] \notin used} # {}

\* GET /boards/{id}/cards?filter=open: the open cards, in board order.
OpenCards(cs) ==
  LET ids == SeqFilter(CardOrder, {c \in DOMAIN cs : ~cs[c].deleted})
  IN  [k \in 1..Len(ids) |-> cs[ids[k]]]

\* NotionService.getEntries: databases.query returns the pages that are not
\* archived.
getEntries(es) ==
  LET ids == SeqFilter(EntryOrder, {e \in DOMAIN es : ~es[e].archived})
  IN  [k \in 1..Len(ids) |-> es[ids[k]]]

\* An anomaly of the Board listing API: none, or the open card dup.id is listed
\* a second time, right after its first occurrence, either as it is or (stale)
\* with the title it had before a rename.
NoDup == [id |-> "", stale |-> FALSE]

StaleTitle == "Z"

RECURSIVE Doubled(_, _)
Doubled(s, dup) ==
  IF s = <<>> THEN <<>>
  ELSE (IF Head(s).id = dup.id
        THEN <<Head(s), IF dup.stale THEN [Head(s) EXCEPT !.name = StaleTitle] ELSE Head(s)>>
        ELSE <<Head(s)>>)
       \o Doubled(Tail(s), dup)

\* The response of GET /boards/{id}/cards that getCards receives.
BoardResponse(cs, dup) == Doubled(OpenCards(cs), dup)

\* card.id.startsWith('688bc')
StartsWith688bc(id) == id \in {CardC2}

RECURSIVE InsertByDate(_, _)
\* c inserted into the date-sorted sequence s after the elements that are not
\* newer: Array.prototype.sort is stable.
InsertByDate(s, c) ==
  IF s = <<>> THEN <<c>>
  ELSE IF Head(s).date <= c.date THEN <<Head(s)>> \o InsertByDate(Tail(s), c)
       ELSE <<c>> \o s

RECURSIVE SortByDate(_)
SortByDate(s) ==
  IF s = <<>> THEN <<>>
  ELSE InsertByDate(SortByDate(SubSeq(s, 1, Len(s) - 1)), s[Len(s)])

\* The records of s whose index is in the set keep, in order.
SelectSeq2(s, keep) ==
  [k \in 1..Len(SeqFilter([j \in 1..Len(s) |-> j], keep))
     |-> s[SeqFilter([j \in 1..Len(s) |-> j], keep)[k]]]

\* removeProblematicCards: of the cards that share a trimmed name, the one
\* kept: the oldest outside "Content / Curriculum", else the oldest whose id
\* does not start with 688bc, else the oldest.
CardToKeep(duplicateCards) ==
  LET sorted == SortByDate(duplicateCards)
      nonContentCurriculumCards ==
        SelectSeq2(sorted, {k \in 1..Len(sorted) : sorted[k].idList # ContentCurriculumListId})
      originalCards ==
        SelectSeq2(sorted, {k \in 1..Len(sorted) : ~StartsWith688bc(sorted[k].id)})
  IN  IF Len(nonContentCurriculumCards) > 0 THEN nonContentCurriculumCards[1]
      ELSE IF Len(originalCards) > 0 THEN originalCards[1]
      ELSE sorted[1]

\* The integers whose decimal form is a string of the model: a property key
\* that is the canonical form of an array index.
IntegerKeys == {0, 1, 2, 7, 1000, 1001, 1002, 2024}

\* The integer a property key stands for, -1 when the key is not the
\* canonical form of one.
ArrayIndex(key) ==
  IF \E n \in IntegerKeys : ToString(n) = key
  THEN CHOOSE n \in IntegerKeys : ToString(n) = key
  ELSE -1

RECURSIVE Ascending(_)
\* The numbers of a set in ascending order.
Ascending(ns) ==
  IF ns = {} THEN <<>>
  ELSE LET least == CHOOSE n \in ns : \A m \in ns : n <= m
       IN  <<least>> \o Ascending(ns \ {least})

\* The order in which Object.entries, Object.values and Object.keys walk an
\* object whose keys were first assigned in the order of the sequence keys:
\* the integer keys in ascending order, then the other keys in the order of
\* their first assignment.
OwnKeys(keys) ==
  LET firsts   == {k \in 1..Len(keys) : \A j \in 1..(k - 1) : keys[j] # keys[k]}
      integers == Ascending({ArrayIndex(keys[k]) : k \in 1..Len(keys)} \ {-1})
  IN  [k \in 1..Len(integers) |-> ToString(integers[k])]
      \o SelectSeq2(keys, {k \in firsts : ArrayIndex(keys[k]) = -1})

\* TrelloService.removeProblematicCards(cards): one card per trimmed name, in
\* the order in which Object.entries walks cardsByName.
removeProblematicCards(cs) ==
  LET names == OwnKeys([k \in 1..Len(cs) |-> Trim(cs[k].name)])
      group(name) == SelectSeq2(cs, {j \in 1..Len(cs) : Trim(cs[j].name) = name})
  IN  [n \in 1..Len(names) |->
         IF Len(group(names[n])) = 1 THEN group(names[n])[1]
         ELSE CardToKeep(group(names[n]))]

\* TrelloService.getCards: the open cards after removeProblematicCards.
getCards(cs, dup) == removeProblematicCards(BoardResponse(cs, dup))

\* ------------------------------------------------------------ remote calls
\* A remote call of a pass: [op, id, field, arg].  id is the card or page the
\* call is about (for a create, the id the remote store gives the new
\* record), field the custom field id, arg the value or the properties sent.
Call(op, id, field, arg) == [op |-> op, id |-> id, field |-> field, arg |-> arg]

\* The methods of TrelloService that change a card.  updateCustomFieldValue
\* sends the value as it is, {number: value}, where updateCustomField sends
\* String(value); no code of the repository calls it, so that no plan of a
\* pass holds it.
TrelloCardOps ==
  {"updateCard", "moveCard", "updateCustomField", "updateCustomFieldValue",
   "updateTextCustomField", "updateCheckboxCustomField", "deleteCard"}

WriteOps == TrelloCardOps \cup {"createCard", "createEntry", "updateEntry", "deletePage"}

\* Whether the remote store accepts the call: Trello answers 404 for a card
\* that is gone, Notion refuses to edit an archived page.
CallPossible(W, c) ==
  CASE c.op \in TrelloCardOps -> c.id \in DOMAIN W.cards /\ ~W.cards[c.id].deleted
    [] c.op = "updateEntry" -> c.id \in DOMAIN W.entries /\ ~W.entries[c.id].archived
    [] c.op = "deletePage" -> c.id \in DOMAIN W.entries
    [] OTHER -> TRUE

\* PUT /cards/{id}/customField/{field}/item with value {kind: String(value)}
\* (or {number: value}): the item holds the value as a string.
SetItem(cs, id, field, kind, value) ==
  [cs EXCEPT ![id].items =
     [x \in DOMAIN cs[id].items \cup {field} |->
        IF x = field THEN [k |-> kind, v |-> JsString(value)] ELSE cs[id].items[x]],
   ![id].date = MaxDate(cs) + 1]

\* pages.create / pages.update with properties: the properties sent replace
\* the page's, the others stay.
MergeProps(entry, props) ==
  [ id       |-> entry.id,
    title    |-> IF "title" \in DOMAIN props THEN props.title ELSE entry.title,
    dept     |-> IF "dept" \in DOMAIN props THEN props.dept ELSE entry.dept,
    trelloId |-> IF "trelloId" \in DOMAIN props THEN props.trelloId ELSE entry.trelloId,
    num      |-> IF "num" \in DOMAIN props
                 THEN [f \in NumFieldSet |->
                         IF f \in DOMAIN props.num THEN props.num[f] ELSE entry.num[f]]
                 ELSE entry.num,
    total    |-> entry.total,
    synced   |-> IF "synced" \in DOMAIN props THEN props.synced ELSE entry.synced,
    archived |-> entry.archived ]

BlankEntry(id) ==
  [id |-> id, title |-> "", dept |-> "", trelloId |-> "", num |-> NoNums,
   total |-> Null, synced |-> FALSE, archived |-> FALSE]

\* The effect of an accepted call on the two stores, W = [cards, entries].
Apply(W, c) ==
  CASE c.op = "createEntry" ->
         [W EXCEPT !.entries =
            [e \in DOMAIN W.entries \cup {c.id} |->
               IF e = c.id THEN MergeProps(BlankEntry(c.id), c.arg) ELSE W.entries[e]]]
    [] c.op = "updateEntry" ->
         [W EXCEPT !.entries[c.id] = MergeProps(W.entries[c.id], c.arg)]
    [] c.op = "deletePage" ->
         [W EXCEPT !.entries[c.id].archived = TRUE]
    [] c.op = "createCard" ->
         [W EXCEPT !.cards =
            [x \in DOMAIN W.cards \cup {c.id} |->
               IF x = c.id THEN NewCard(c.id, c.arg.name, c.arg.idList, MaxDate(W.cards) + 1)
               ELSE W.cards[x]]]
    [] c.op = "updateCard" ->
         [W EXCEPT !.cards[c.id].name = c.arg, !.cards[c.id].date = MaxDate(W.cards) + 1]
    [] c.op = "moveCard" ->
         [W EXCEPT !.cards[c.id].idList = c.arg, !.cards[c.id].date = MaxDate(W.cards) + 1]
    [] c.op = "updateCustomField" ->
         [W EXCEPT !.cards = SetItem(W.cards, c.id, c.field, "number", c.arg)]
    [] c.op = "updateCustomFieldValue" ->
         [W EXCEPT !.cards = SetItem(W.cards, c.id, c.field, "number", c.arg)]
    [] c.op = "updateTextCustomField" ->
         [W EXCEPT !.cards = SetItem(W.cards, c.id, c.field, "text", c.arg)]
    [] c.op = "updateCheckboxCustomField" ->
         [W EXCEPT !.cards = SetItem(W.cards, c.id, c.field, "checked", c.arg)]
    [] c.op = "deleteCard" ->
         [W EXCEPT !.cards[c.id].deleted = TRUE]
    [] OTHER -> W

RECURSIVE RunFrom(_, _, _, _)
\* The calls of plan issued one after the other from the k-th on, each awaited
\* before the next; the f-th fails (f = 0: none is made to fail), and so does
\* a call the remote store does not accept.  The first failure throws: the
\* calls after it are not issued.
RunFrom(W, plan, k, f) ==
  IF k > Len(plan) THEN [w |-> W, issued |-> Len(plan), failed |-> FALSE]
  ELSE IF k = f \/ ~CallPossible(W, plan[k]) THEN [w |-> W, issued |-> k, failed |-> TRUE]
  ELSE RunFrom(Apply(W, plan[k]), plan, k + 1, f)

RunPlan(W, plan, f) == RunFrom(W, plan, 1, f)

\* The calls a run issued, as the pass logs them: ok is FALSE for the failed
\* one, ph is the phase of the pass that issued it.
Issued(plan, r, ph) ==
  [k \in 1..r.issued |->
     [op |-> plan[k].op, id |-> plan[k].id, field |-> plan[k].field, arg |-> plan[k].arg,
      ok |-> ~(r.failed /\ k = r.issued), ph |-> ph]]

\* ------------------------------------------------------ sync/syncEngine.js
\* createListMap(trelloLists): list id -> name (a later list of the same id
\* overwrites an earlier one).
createListMap(trelloLists) ==
  [id \in {trelloLists[k].id : k \in 1..Len(trelloLists)} |->
     trelloLists[LastIndex({k \in 1..Len(trelloLists) : trelloLists[k].id = id})].name]

\* createListMapReverse(trelloLists): list name -> id.
createListMapReverse(trelloLists) ==
  [name \in {trelloLists[k].name : k \in 1..Len(trelloLists)} |->
     trelloLists[LastIndex({k \in 1..Len(trelloLists) : trelloLists[k].name = name})].id]

\* createCustomFieldMap(trelloCustomFields): field name -> field id.
createCustomFieldMap(trelloCustomFields) ==
  [name \in trelloCustomFields |-> FieldId(name)]

\* A variant of createNotionLookupMap that holds the synced entries only.
createNotionLookupMapOfSynced(notionEntries) ==
  [tid \in {notionEntries[k].trelloId :
              k \in {j \in 1..Len(notionEntries) : notionEntries[j].synced}} \ {""} |->
     notionEntries[LastIndex({k \in 1..Len(notionEntries) :
                                notionEntries[k].synced /\ notionEntries[k].trelloId = tid})]]

\* createNotionLookupMap(notionEntries): Trello id -> entry, for the entries
\* whose 'Trello ID' is not empty; the last entry of an id wins.
createNotionLookupMap(notionEntries) ==
  [tid \in {notionEntries[k].trelloId : k \in 1..Len(notionEntries)} \ {""} |->
     notionEntries[LastIndex({k \in 1..Len(notionEntries) : notionEntries[k].trelloId = tid})]]

\* trelloCardMap[card.id] = card over a listing: the last card of an id wins.
CardMapOf(trelloCards) ==
  [id \in {trelloCards[k].id : k \in 1..Len(trelloCards)} |->
     trelloCards[LastIndex({k \in 1..Len(trelloCards) : trelloCards[k].id = id})]]

\* syncTrelloToNotion: uniqueCards, the first card of each id in the order
\* the ids first appear.
UniqueCards(trelloCards) ==
  SelectSeq2(trelloCards,
             {k \in 1..Len(trelloCards) : \A j \in 1..(k - 1) : trelloCards[j].id # trelloCards[k].id})

\* getTrelloCustomFieldValue: fieldItem?.value?.number || null.
getTrelloCustomFieldValue(trelloCard, customFieldId) ==
  IF customFieldId \in DOMAIN trelloCard.items
     /\ trelloCard.items[customFieldId].k = "number"
     /\ trelloCard.items[customFieldId].v # ""
  THEN Str(trelloCard.items[customFieldId].v)
  ELSE Null

\* getTrelloTextCustomFieldValue: fieldItem?.value?.text || null.
getTrelloTextCustomFieldValue(trelloCard, customFieldId) ==
  IF customFieldId \in DOMAIN trelloCard.items
     /\ trelloCard.items[customFieldId].k = "text"
     /\ trelloCard.items[customFieldId].v # ""
  THEN Str(trelloCard.items[customFieldId].v)
  ELSE Null

\* getTrelloCheckboxCustomFieldValue: fieldItem?.value?.checked === 'true'.
getTrelloCheckboxCustomFieldValue(trelloCard, customFieldId) ==
  /\ customFieldId \in DOMAIN trelloCard.items
  /\ trelloCard.items[customFieldId].k = "checked"
  /\ trelloCard.items[customFieldId].v = "true"

\* A variant of shouldUpdateNotionEntry that does not look at the Department.
shouldUpdateIgnoringDepartment(notionEntry, trelloCard, customFields, listName) ==
  \/ hasChanged(Str(notionEntry.title), Str(trelloCard.name))
  \/ \E f \in NumFieldSet :
       hasChanged(notionEntry.num[f],
                  IF f \in DOMAIN customFields THEN customFields[f] ELSE Null)

\* shouldUpdateNotionEntry(notionEntry, trelloCard, customFields, listName).
shouldUpdateNotionEntry(notionEntry, trelloCard, customFields, listName) ==
  \/ hasChanged(Str(notionEntry.title), Str(trelloCard.name))
  \/ hasChanged(Str(notionEntry.dept), Str(listName))
  \/ \E f \in NumFieldSet :
       hasChanged(notionEntry.num[f],
                  IF f \in DOMAIN customFields THEN customFields[f] ELSE Null)

\* syncTrelloToNotion, the body of the loop for one card: the remote calls it
\* makes.  W is the two stores (for the id Notion gives a new page).
TrelloToNotionCalls(W, card, trelloLists, trelloCustomFields, notionEntries) ==
  LET listIdToNameMap == createListMap(trelloLists)
      listName == IF card.idList \in DOMAIN listIdToNameMap /\ listIdToNameMap[card.idList] # ""
                  THEN listIdToNameMap[card.idList] ELSE "Unknown"
      customFields == extractTrelloCustomFields(card, trelloCustomFields)
      notionProperties == mapTrelloToNotion(card, customFields, listName)
      notionByTrelloId == createNotionLookupMap(notionEntries)
  IN  IF card.id \in DOMAIN notionByTrelloId
      THEN IF shouldUpdateNotionEntry(notionByTrelloId[card.id], card, customFields, listName)
           THEN <<Call("updateEntry", notionByTrelloId[card.id].id, "", notionProperties)>>
           ELSE <<>>
      ELSE <<Call("createEntry", FreshId(NewEntryIds, DOMAIN W.entries), "", notionProperties)>>

\* createTrelloCardFromNotion(notionEntry, listNameToIdMap): create the card,
\* write its id to the entry's 'Trello ID', read the field definitions again
\* and set the card's Notion Link when the board defines that field.
createTrelloCardFromNotion(W, notionEntry, trelloLists, trelloCustomFields) ==
  LET listNameToIdMap == createListMapReverse(trelloLists)
      listId == IF notionEntry.dept \in DOMAIN listNameToIdMap
                THEN listNameToIdMap[notionEntry.dept]
                ELSE listNameToIdMap[OwnKeys([k \in 1..Len(trelloLists) |->
                                               trelloLists[k].name])[1]]
      newCardId == FreshId(NewCardIds, DOMAIN W.cards)
  IN  << Call("createCard", newCardId, "",
              [name |-> IF notionEntry.title # "" THEN notionEntry.title ELSE "Untitled",
               idList |-> listId]),
         Call("updateEntry", notionEntry.id, "", [trelloId |-> newCardId]),
         Call("getCustomFields", "", "", Null) >>
      \o (IF "Notion Link" \in trelloCustomFields
          THEN <<Call("updateTextCustomField", newCardId, FieldId("Notion Link"),
                      Str(generateNotionPageUrl(notionEntry.id)))>>
          ELSE <<>>)

\* updateTrelloFromNotion, the custom field loop: one call per field that the
\* board defines and whose value is not null, by the type of the value.
FieldUpdateCall(cardId, fieldName, value) ==
  IF fieldName = "synced" \/ IsBool(value)
  THEN Call("updateCheckboxCustomField", cardId, FieldId(fieldName), value)
  ELSE IF IsStr(value)
       THEN Call("updateTextCustomField", cardId, FieldId(fieldName), value)
       ELSE Call("updateCustomField", cardId, FieldId(fieldName), value)

RECURSIVE FieldUpdateCallsUndefinedToo(_, _, _)
\* A variant of FieldUpdateCalls that also issues the call of a field the board
\* does not define.
FieldUpdateCallsUndefinedToo(cardId, customFields, trelloCustomFields) ==
  IF customFields = <<>> THEN <<>>
  ELSE (IF ~IsNull(Head(customFields)[2])
        THEN <<FieldUpdateCall(cardId, Head(customFields)[1], Head(customFields)[2])>>
        ELSE <<>>)
       \o FieldUpdateCallsUndefinedToo(cardId, Tail(customFields), trelloCustomFields)

RECURSIVE FieldUpdateCalls(_, _, _)
FieldUpdateCalls(cardId, customFields, trelloCustomFields) ==
  IF customFields = <<>> THEN <<>>
  ELSE (IF Head(customFields)[1] \in trelloCustomFields /\ ~IsNull(Head(customFields)[2])
        THEN <<FieldUpdateCall(cardId, Head(customFields)[1], Head(customFields)[2])>>
        ELSE <<>>)
       \o FieldUpdateCalls(cardId, Tail(customFields), trelloCustomFields)

\* updateTrelloFromNotion(notionEntry, trelloCard, listNameToIdMap,
\* customFieldMap): the remote calls, in order.  hasUpdates is that there is
\* one.
updateTrelloFromNotion(notionEntry, trelloCard, trelloLists, trelloCustomFields) ==
  LET m == mapNotionToTrello(notionEntry)
      listNameToIdMap == createListMapReverse(trelloLists)
      notionPageUrl == generateNotionPageUrl(notionEntry.id)
  IN  (IF Truthy(m.update.name) /\ hasChanged(m.update.name, Str(trelloCard.name))
       THEN <<Call("updateCard", trelloCard.id, "", m.update.name.str)>>
       ELSE <<>>)
      \o (IF /\ notionEntry.dept \in DOMAIN listNameToIdMap
             /\ hasChanged(Str(listNameToIdMap[notionEntry.dept]), Str(trelloCard.idList))
          THEN <<Call("moveCard", trelloCard.id, "", listNameToIdMap[notionEntry.dept])>>
          ELSE <<>>)
      \o FieldUpdateCalls(trelloCard.id, m.customFields, trelloCustomFields)
      \o (IF ~IsNull(notionEntry.total) /\ "Total Score" \in trelloCustomFields
          THEN <<Call("updateCustomField", trelloCard.id, FieldId("Total Score"),
                      notionEntry.total)>>
          ELSE <<>>)
      \o (IF /\ "Notion Link" \in trelloCustomFields
             /\ hasChanged(getTrelloTextCustomFieldValue(trelloCard, FieldId("Notion Link")),
                           Str(notionPageUrl))
          THEN <<Call("updateTextCustomField", trelloCard.id, FieldId("Notion Link"),
                      Str(notionPageUrl))>>
          ELSE <<>>)

\* A variant of NotionToTrelloCalls that takes an entry whose card is not
\* found for a new entry and creates a card for it.
NotionToTrelloCallsForMissingCard(W, entry, trelloCardMap, trelloLists, trelloCustomFields) ==
  IF entry.trelloId = "" \/ entry.trelloId \notin DOMAIN trelloCardMap
  THEN createTrelloCardFromNotion(W, entry, trelloLists, trelloCustomFields)
  ELSE updateTrelloFromNotion(entry, trelloCardMap[entry.trelloId], trelloLists,
                              trelloCustomFields)

\* A variant of NotionToTrelloCalls that creates a card for every entry,
\* whether or not the entry holds a Trello id.
NotionToTrelloCallsCreatingAlways(W, entry, trelloCardMap, trelloLists, trelloCustomFields) ==
  createTrelloCardFromNotion(W, entry, trelloLists, trelloCustomFields)

\* syncNotionToTrello, the body of the loop for one entry.
NotionToTrelloCalls(W, entry, trelloCardMap, trelloLists, trelloCustomFields) ==
  IF entry.trelloId = ""
  THEN createTrelloCardFromNotion(W, entry, trelloLists, trelloCustomFields)
  ELSE IF entry.trelloId \notin DOMAIN trelloCardMap THEN <<>>
  ELSE updateTrelloFromNotion(entry, trelloCardMap[entry.trelloId], trelloLists,
                              trelloCustomFields)

\* A variant of TotalScoreCalls that lists the cards itself and writes the
\* total score without comparing it.
TotalScoreCallsAfterListing(entry, cardMap) ==
  IF entry.trelloId = "" \/ entry.trelloId \notin DOMAIN cardMap \/ IsNull(entry.total)
  THEN <<>>
  ELSE <<Call("getCards", "", "", Null),
         Call("updateCustomField", entry.trelloId, FieldId("Total Score"), entry.total)>>

\* syncTotalScoreToTrello, the body of the loop for one entry.
TotalScoreCalls(entry, cardMap) ==
  IF entry.trelloId = "" \/ entry.trelloId \notin DOMAIN cardMap \/ IsNull(entry.total)
  THEN <<>>
  ELSE IF hasChanged(getTrelloCustomFieldValue(cardMap[entry.trelloId], FieldId("Total Score")),
                     entry.total)
       THEN <<Call("updateCustomField", entry.trelloId, FieldId("Total Score"), entry.total)>>
       ELSE <<>>

\* Variants of DeleteNotionCalls that the deletion properties must reject: one
\* that does not look at the entry's synced flag, one that never archives.
DeleteNotionCallsIgnoringSynced(entry, trelloCards) ==
  IF entry.trelloId # "" /\ entry.trelloId \notin {trelloCards[k].id : k \in 1..Len(trelloCards)}
  THEN <<[op |-> "deletePage", id |-> entry.id, field |-> "", arg |-> Null]>>
  ELSE <<>>

\* handleDeletionSync, the body of the first loop for one entry: archive the
\* entry when it is synced and its Trello id is the id of no fetched card.
DeleteNotionCalls(entry, trelloCards) ==
  IF entry.synced /\ entry.trelloId # "" /\ entry.trelloId \notin DOMAIN CardMapOf(trelloCards)
  THEN <<Call("deletePage", entry.id, "", Null)>>
  ELSE <<>>

\* handleDeletionSync, the body of the second loop for one card: delete the
\* card when its synced box is checked and no fetched entry has its id.
DeleteTrelloCalls(card, notionEntries) ==
  IF /\ getTrelloCheckboxCustomFieldValue(card, FieldId("synced"))
     /\ card.id \notin DOMAIN createNotionLookupMap(notionEntries)
  THEN <<Call("deleteCard", card.id, "", Null)>>
  ELSE <<>>

\* ------------------------------------------------------------------ state
VARIABLES
  cards,          \* the Trello board: card id -> card
  entries,        \* the Notion database: page id -> entry
  fieldDefs,      \* the names of the custom fields the board defines
  webhook,        \* the last request the webhook receiver has answered
  apiDup,         \* the anomaly of the Board listing API, if any
  pass,           \* the passes (performSync calls), by slot
  syncStats,      \* this.syncStats of each SyncEngine
  nPasses,        \* passes started so far
  nFail,          \* remote calls made to fail so far
  now,            \* the clock of the polling service's process (ms)
  config,         \* who uses the strategy, and config.sync.pollInterval once loaded
  service,        \* the SyncService: isRunning, isSyncing
  pollingStrategy,\* the PollingStrategy in use
  checks,         \* the checkForChanges invocations in flight, by slot
  lastPoll,       \* the number of polls started and the last poll that is over
  lastPass,       \* the number of passes (runFullSync) over and the last of them
  lastUpdate,     \* the last updatePollInterval call and its outcome
  fn,             \* the last call of a function of utils/mapping.js on its own
  edit,           \* the edit a user made on one side of a linked pair, if any
  createdFor,     \* the cards createTrelloCardFromNotion created: <<entry id, card id>>
  change,         \* the Board change that is followed: reported by a poll, followed by a pass
  timers          \* the interval timers that are set, the start() calls that await, the last call

syncVars == <<cards, entries, fieldDefs, webhook, apiDup, pass, syncStats, nPasses, nFail>>

pollVars == <<now, config, service, pollingStrategy, checks, lastPoll, lastPass, lastUpdate>>

vars == <<cards, entries, fieldDefs, webhook, apiDup, pass, syncStats, nPasses, nFail,
          now, config, service, pollingStrategy, checks, lastPoll, lastPass, lastUpdate, fn, edit, createdFor, change,
          timers>>

\* A pass of the scheduled script (index.js main, one SyncEngine per run) and
\* two performSync() calls on one SyncEngine made by a caller that does not
\* wait for the first to settle.
MainSlots == {"main"}

SharedSlots == {"first", "second"}

Slots == MainSlots \cup SharedSlots

Engine(s) == IF s \in SharedSlots THEN "shared" ELSE "main"

Engines == {"main", "shared"}

\* resetStats.
ZeroStats ==
  [trelloToNotion |-> [created |-> 0, updated |-> 0],
   notionToTrello |-> [created |-> 0, updated |-> 0],
   errors |-> 0]

\* The four listings performSync awaits in Promise.all.
Listings == {"getCards", "getLists", "getCustomFields", "getEntries"}

\* A pass holds what performSync holds between two awaits: where it stands
\* (pc, i), the listings, the card map of syncNotionToTrello, the calls it has
\* made and, when passes run side by side, the listings that are not answered
\* yet (pending), the calls of the loop body it is in from the one in flight
\* on (todo), the counter the body increments and the answers to the calls
\* in flight that the pass has not handled yet (answers).
IdlePass ==
  [pc |-> "idle", no |-> 0, i |-> 0, trelloCards |-> <<>>, notionEntries |-> <<>>,
   cardMap |-> <<>>, calls |-> <<>>, failedListings |-> {}, result |-> "none",
   pending |-> {}, todo |-> <<>>, counter |-> "none", answers |-> <<>>]

\* Variants of BodyStats and StatsAfterListings that do not count the error.
BodyStatsUncounted(stats, failed, made, counter) == stats

StatsAfterListingsUncounted(failed) ==
  [trelloToNotion |-> [created |-> 0, updated |-> 0],
   notionToTrello |-> [created |-> 0, updated |-> 0],
   errors |-> 0]

\* The counter a completed record operation increments.
Bump(stats, counter) ==
  CASE counter = "trelloToNotion.created" ->
         [stats EXCEPT !.trelloToNotion.created = @ + 1]
    [] counter = "trelloToNotion.updated" ->
         [stats EXCEPT !.trelloToNotion.updated = @ + 1]
    [] counter = "notionToTrello.created" ->
         [stats EXCEPT !.notionToTrello.created = @ + 1]
    [] counter = "notionToTrello.updated" ->
         [stats EXCEPT !.notionToTrello.updated = @ + 1]
    [] OTHER -> stats

\* this.syncStats after one loop body: the catch counts a failure in errors;
\* a body that made its calls without failure increments its counter.
BodyStats(stats, failed, made, counter) ==
  IF failed THEN [stats EXCEPT !.errors = @ + 1]
  ELSE IF made THEN Bump(stats, counter)
  ELSE stats

\* this.syncStats after resetStats and the four listings: performSync's catch
\* counts one error when a listing failed.
StatsAfterListings(failed) ==
  IF failed # {} THEN [ZeroStats EXCEPT !.errors = @ + 1] ELSE ZeroStats

RECURSIVE AdvanceDeletionBeforeTotalScore(_, _)
\* A variant of Advance in which handleDeletionSync runs before
\* syncTotalScoreToTrello.
AdvanceDeletionBeforeTotalScore(p, defs) ==
  CASE p.pc = "syncTrelloToNotion" /\ p.i > Len(UniqueCards(p.trelloCards)) ->
         [p EXCEPT !.pc = "getCards", !.i = 1]
    [] p.pc = "syncNotionToTrello" /\ p.i > Len(p.notionEntries) ->
         AdvanceDeletionBeforeTotalScore([p EXCEPT !.pc = "deleteNotion", !.i = 1], defs)
    [] p.pc = "deleteNotion" /\ ("synced" \notin defs \/ p.i > Len(p.notionEntries)) ->
         AdvanceDeletionBeforeTotalScore(
           [p EXCEPT !.pc = IF "synced" \in defs THEN "deleteTrello" ELSE "syncTotalScoreToTrello",
                     !.i = 1], defs)
    [] p.pc = "deleteTrello" /\ p.i > Len(p.trelloCards) ->
         AdvanceDeletionBeforeTotalScore([p EXCEPT !.pc = "syncTotalScoreToTrello", !.i = 1], defs)
    [] p.pc = "syncTotalScoreToTrello"
         /\ ("Total Score" \notin defs \/ p.i > Len(p.notionEntries)) ->
         [p EXCEPT !.pc = "done", !.result = "returned"]
    [] OTHER -> p

RECURSIVE Advance(_, _)
\* Where a pass stands after a step: loops that are over (or empty) are left,
\* syncTotalScoreToTrello returns at once when the board has no 'Total Score'
\* field and handleDeletionSync when it has no 'synced' field, and
\* performSync returns this.syncStats after handleDeletionSync.
Advance(p, defs) ==
  CASE p.pc = "syncTrelloToNotion" /\ p.i > Len(UniqueCards(p.trelloCards)) ->
         [p EXCEPT !.pc = "getCards", !.i = 1]
    [] p.pc = "syncNotionToTrello" /\ p.i > Len(p.notionEntries) ->
         Advance([p EXCEPT !.pc = "syncTotalScoreToTrello", !.i = 1], defs)
    [] p.pc = "syncTotalScoreToTrello"
         /\ ("Total Score" \notin defs \/ p.i > Len(p.notionEntries)) ->
         Advance([p EXCEPT !.pc = "deleteNotion", !.i = 1], defs)
    [] p.pc = "deleteNotion" /\ "synced" \notin defs ->
         [p EXCEPT !.pc = "done", !.result = "returned"]
    [] p.pc = "deleteNotion" /\ p.i > Len(p.notionEntries) ->
         Advance([p EXCEPT !.pc = "deleteTrello", !.i = 1], defs)
    [] p.pc = "deleteTrello" /\ p.i > Len(p.trelloCards) ->
         [p EXCEPT !.pc = "done", !.result = "returned"]
    [] OTHER -> p

\* One iteration of a loop of a pass that runs alone (the scheduled script
\* with no other pass and no user at work: nothing else changes the board, the
\* database or this.syncStats between two awaits of the pass, so that the
\* awaits of a loop body are taken in one step; passes side by side and
\* passes next to a user's edit are followed await by await, see below).
\* The calls of plan are issued
\* in order, the f-th failing (0: none is made to fail).  A failure is caught
\* by the try/catch around the loop body, which counts it in errors; when no
\* call fails and there was one, counter is incremented.
LoopBody(s, plan, f, counter) ==
  LET r == RunPlan([cards |-> cards, entries |-> entries], plan, f)
      p == pass[s]
  IN  /\ f \in 0..Len(plan)
      /\ f > 0 => (nFail < MaxFailures /\ r.failed /\ r.issued = f)
      /\ cards' = r.w.cards
      /\ entries' = r.w.entries
      /\ nFail' = IF f > 0 THEN nFail + 1 ELSE nFail
      /\ syncStats' =
           [syncStats EXCEPT ![Engine(s)] = BodyStats(@, r.failed, plan # <<>>, counter)]
      /\ pass' = [pass EXCEPT ![s] =
                    Advance([p EXCEPT !.i = p.i + 1,
                                      !.calls = p.calls \o Issued(plan, r, p.pc)],
                            fieldDefs)]
      /\ createdFor' =
           IF plan # <<>> /\ plan[1].op = "createCard" /\ r.issued >= 1
              /\ ~(r.failed /\ r.issued = 1)
           THEN createdFor \cup {<<plan[2].id, plan[1].id>>}
           ELSE createdFor
      /\ UNCHANGED <<fieldDefs, webhook, apiDup, nPasses, pollVars, fn, edit, change, timers>>

\* performSync of a pass that runs alone, up to its first loop: resetStats,
\* then the four listings in Promise.all, answered from the one state of the
\* board and the database.  When a listing fails the catch counts one error
\* and rethrows.
PerformSyncStart(s, failed) ==
  /\ pass[s].pc \in {"idle", "done"}
  /\ nPasses < MaxPasses
  /\ failed # {} => nFail < MaxFailures
  /\ nPasses' = nPasses + 1
  /\ nFail' = IF failed # {} THEN nFail + 1 ELSE nFail
  /\ syncStats' = [syncStats EXCEPT ![Engine(s)] = StatsAfterListings(failed)]
  /\ pass' = [pass EXCEPT ![s] =
       IF failed # {}
       THEN [IdlePass EXCEPT !.pc = "done", !.no = nPasses + 1, !.result = "thrown",
                             !.failedListings = failed]
       ELSE Advance([IdlePass EXCEPT !.pc = "syncTrelloToNotion", !.no = nPasses + 1, !.i = 1,
                                     !.trelloCards = getCards(cards, apiDup),
                                     !.notionEntries = getEntries(entries)],
                    fieldDefs)]
  /\ UNCHANGED <<cards, entries, fieldDefs, webhook, apiDup, pollVars, fn, edit, createdFor, change, timers>>

\* index.js main: one run of the scheduled script calls performSync.
PerformSync(s) ==
  \E failed \in SUBSET Listings : PerformSyncStart(s, failed)

\* syncTrelloToNotion: the loop body for the next unique card.
SyncTrelloToNotion(s) ==
  /\ pass[s].pc = "syncTrelloToNotion"
  /\ HasFreshId(NewEntryIds, DOMAIN entries)
  /\ LET card == UniqueCards(pass[s].trelloCards)[pass[s].i]
         plan == TrelloToNotionCalls([cards |-> cards, entries |-> entries], card,
                                     BoardLists, fieldDefs, pass[s].notionEntries)
     IN  \E f \in 0..Len(plan) :
           LoopBody(s, plan, f,
                    IF plan # <<>> /\ plan[1].op = "createEntry"
                    THEN "trelloToNotion.created" ELSE "trelloToNotion.updated")

\* syncNotionToTrello: trelloService.getCards() before its loop.  It is
\* outside the loop's try/catch: a failure reaches performSync's catch.
GetCardsAgain(s) ==
  /\ pass[s].pc = "getCards"
  /\ \E fails \in BOOLEAN :
       /\ fails => nFail < MaxFailures
       /\ nFail' = IF fails THEN nFail + 1 ELSE nFail
       /\ syncStats' = [syncStats EXCEPT ![Engine(s)] =
                          IF fails THEN [@ EXCEPT !.errors = @ + 1] ELSE @]
       /\ pass' = [pass EXCEPT ![s] =
            IF fails
            THEN [@ EXCEPT !.pc = "done", !.result = "thrown",
                           !.calls = @ \o <<[op |-> "getCards", id |-> "", field |-> "",
                                             arg |-> Null, ok |-> FALSE, ph |-> "getCards"]>>]
            ELSE Advance([@ EXCEPT !.pc = "syncNotionToTrello", !.i = 1,
                                   !.cardMap = CardMapOf(getCards(cards, apiDup))],
                         fieldDefs)]
  /\ UNCHANGED <<cards, entries, fieldDefs, webhook, apiDup, nPasses, pollVars, fn, edit, createdFor, change, timers>>

\* syncNotionToTrello: the loop body for the next entry.
SyncNotionToTrello(s) ==
  /\ pass[s].pc = "syncNotionToTrello"
  /\ HasFreshId(NewCardIds, DOMAIN cards)
  /\ LET entry == pass[s].notionEntries[pass[s].i]
         plan == NotionToTrelloCalls([cards |-> cards, entries |-> entries], entry,
                                     pass[s].cardMap, BoardLists, fieldDefs)
     IN  \E f \in 0..Len(plan) :
           LoopBody(s, plan, f,
                    IF entry.trelloId = ""
                    THEN "notionToTrello.created" ELSE "notionToTrello.updated")

\* syncTotalScoreToTrello: the loop body for the next entry; it counts no
\* created or updated record.
SyncTotalScoreToTrello(s) ==
  /\ pass[s].pc = "syncTotalScoreToTrello"
  /\ LET plan == TotalScoreCalls(pass[s].notionEntries[pass[s].i], pass[s].cardMap)
     IN  \E f \in 0..Len(plan) : LoopBody(s, plan, f, "none")

\* handleDeletionSync: the body of the loop over the entries.
DeleteNotion(s) ==
  /\ pass[s].pc = "deleteNotion"
  /\ LET plan == DeleteNotionCalls(pass[s].notionEntries[pass[s].i], pass[s].trelloCards)
     IN  \E f \in 0..Len(plan) : LoopBody(s, plan, f, "notionToTrello.updated")

\* handleDeletionSync: the body of the loop over the cards.
DeleteTrello(s) ==
  /\ pass[s].pc = "deleteTrello"
  /\ LET plan == DeleteTrelloCalls(pass[s].trelloCards[pass[s].i], pass[s].notionEntries)
     IN  \E f \in 0..Len(plan) : LoopBody(s, plan, f, "trelloToNotion.updated")

\* -------------------------------------- performSync, one await at a time
\* Passes that run side by side on one SyncEngine and a pass during which a
\* user edits the board or the database are followed await by await: the remote
\* store takes a call in one step and the pass handles the answer in a later
\* one, so that steps of other passes and edits fall between two calls of a
\* loop body and between the effect of a call and the counter.

LoopPhases ==
  {"syncTrelloToNotion", "syncNotionToTrello", "syncTotalScoreToTrello", "deleteNotion",
   "deleteTrello"}

\* The calls of the loop body the pass p is about to run and the counter the
\* body increments when it has made them, from the listings p holds; W gives
\* the id of a record the body creates.
BodyOf(p, W, defs) ==
  CASE p.pc = "syncTrelloToNotion" ->
         LET plan == TrelloToNotionCalls(W, UniqueCards(p.trelloCards)[p.i], BoardLists, defs,
                                         p.notionEntries)
         IN  [plan |-> plan,
              counter |-> IF plan # <<>> /\ plan[1].op = "createEntry"
                          THEN "trelloToNotion.created" ELSE "trelloToNotion.updated"]
    [] p.pc = "syncNotionToTrello" ->
         [plan |-> NotionToTrelloCalls(W, p.notionEntries[p.i], p.cardMap, BoardLists, defs),
          counter |-> IF p.notionEntries[p.i].trelloId = ""
                      THEN "notionToTrello.created" ELSE "notionToTrello.updated"]
    [] p.pc = "syncTotalScoreToTrello" ->
         [plan |-> TotalScoreCalls(p.notionEntries[p.i], p.cardMap), counter |-> "none"]
    [] p.pc = "deleteNotion" ->
         [plan |-> DeleteNotionCalls(p.notionEntries[p.i], p.trelloCards),
          counter |-> "notionToTrello.updated"]
    [] p.pc = "deleteTrello" ->
         [plan |-> DeleteTrelloCalls(p.trelloCards[p.i], p.notionEntries),
          counter |-> "trelloToNotion.updated"]

\* performSync up to its first await: resetStats, then the four listings are
\* requested.
PerformSyncResetStats(s) ==
  /\ pass[s].pc \in {"idle", "done"}
  /\ nPasses < MaxPasses
  /\ nPasses' = nPasses + 1
  /\ syncStats' = [syncStats EXCEPT ![Engine(s)] = ZeroStats]
  /\ pass' = [pass EXCEPT ![s] = [IdlePass EXCEPT !.pc = "listings", !.no = nPasses + 1,
                                                  !.pending = Listings]]
  /\ UNCHANGED <<cards, entries, fieldDefs, webhook, apiDup, nFail, pollVars, fn, edit,
                 createdFor, change, timers>>

\* One of the four listings of Promise.all is answered: getCards and
\* getEntries with what the board and the database hold at that moment.  The
\* first listing that fails rejects Promise.all: the catch counts one error
\* and rethrows.  After the last answer the pass enters its first loop.
PerformSyncListing(s) ==
  /\ pass[s].pc = "listings"
  /\ \E l \in pass[s].pending, fails \in BOOLEAN :
       /\ fails => nFail < MaxFailures
       /\ nFail' = IF fails THEN nFail + 1 ELSE nFail
       /\ syncStats' = [syncStats EXCEPT ![Engine(s)] =
                          IF fails THEN [@ EXCEPT !.errors = @ + 1] ELSE @]
       /\ pass' = [pass EXCEPT ![s] =
            IF fails
            THEN [@ EXCEPT !.pc = "done", !.result = "thrown", !.failedListings = {l},
                           !.pending = {}]
            ELSE LET p == [@ EXCEPT !.pending = @ \ {l},
                                    !.trelloCards = IF l = "getCards"
                                                    THEN getCards(cards, apiDup) ELSE @,
                                    !.notionEntries = IF l = "getEntries"
                                                      THEN getEntries(entries) ELSE @]
                 IN  IF p.pending = {}
                     THEN Advance([p EXCEPT !.pc = "syncTrelloToNotion", !.i = 1], fieldDefs)
                     ELSE p]
  /\ UNCHANGED <<cards, entries, fieldDefs, webhook, apiDup, nPasses, pollVars, fn, edit,
                 createdFor, change, timers>>

\* A loop body that makes no call: the loop goes on with the next record.
BodyWithoutCall(s) ==
  /\ pass[s].pc \in LoopPhases
  /\ pass[s].answers = <<>> /\ pass[s].todo = <<>>
  /\ HasFreshId(NewEntryIds, DOMAIN entries) /\ HasFreshId(NewCardIds, DOMAIN cards)
  /\ BodyOf(pass[s], [cards |-> cards, entries |-> entries], fieldDefs).plan = <<>>
  /\ pass' = [pass EXCEPT ![s] = Advance([@ EXCEPT !.i = @ + 1], fieldDefs)]
  /\ UNCHANGED <<cards, entries, fieldDefs, webhook, apiDup, syncStats, nPasses, nFail,
                 pollVars, fn, edit, createdFor, change, timers>>

\* A variant of SentBeforeAwait in which the calls of a loop body are sent
\* together and awaited as a whole (a Promise.all over the body).
SentBeforeAwaitWholeBody(plan) == Len(plan)

\* The number of calls of a loop body the pass has sent when it waits for an
\* answer: every remote call of the loops is awaited where it is made
\* (await this.notionService.createEntry(...), await
\* this.trelloService.updateCard(...)), so that the pass sends one call and
\* waits.
SentBeforeAwait(plan) == 1

\* The remote store takes the next call of the loop body the pass is in (the
\* first call of the body of the next record when the pass is between two
\* bodies): the call takes effect, or it fails, and its answer is on its way
\* to the pass.
AwaitedCallTakesEffect(s) ==
  /\ pass[s].pc \in LoopPhases
  /\ HasFreshId(NewEntryIds, DOMAIN entries) /\ HasFreshId(NewCardIds, DOMAIN cards)
  /\ LET p    == pass[s]
         W    == [cards |-> cards, entries |-> entries]
         body == BodyOf(p, W, fieldDefs)
         plan == IF p.todo # <<>> THEN p.todo ELSE body.plan
         k    == Len(p.answers) + 1
     IN  /\ k <= Len(plan)
         /\ k <= SentBeforeAwait(plan)
         /\ \E fails \in BOOLEAN :
              LET ok == ~fails /\ CallPossible(W, plan[k])
              IN  /\ fails => nFail < MaxFailures
                  /\ nFail' = IF fails THEN nFail + 1 ELSE nFail
                  /\ cards' = IF ok THEN Apply(W, plan[k]).cards ELSE cards
                  /\ entries' = IF ok THEN Apply(W, plan[k]).entries ELSE entries
                  /\ pass' = [pass EXCEPT ![s] =
                       [p EXCEPT !.todo = plan,
                                 !.counter = IF p.todo # <<>> THEN @ ELSE body.counter,
                                 !.answers = Append(@, IF ok THEN "ok" ELSE "failed"),
                                 !.calls = @ \o <<[op |-> plan[k].op, id |-> plan[k].id,
                                                   field |-> plan[k].field,
                                                   arg |-> plan[k].arg, ok |-> ok,
                                                   ph |-> p.pc]>>]]
                  /\ createdFor' = IF ok /\ plan[k].op = "createCard"
                                   THEN createdFor \cup {<<plan[k + 1].id, plan[k].id>>}
                                   ELSE createdFor
  /\ UNCHANGED <<fieldDefs, webhook, apiDup, syncStats, nPasses, pollVars, fn, edit,
                 change, timers>>

\* The pass has sent what it sends before it waits, and handles the answer to
\* the call it awaits: a failure is caught by the try/catch around the loop
\* body, which counts it in errors and goes on with the next record; after
\* the last call of a body its counter is incremented; otherwise the next
\* call of the body is sent.
AwaitedCallAnswered(s) ==
  /\ pass[s].answers # <<>>
  /\ \/ Len(pass[s].answers) = Len(pass[s].todo)
     \/ Len(pass[s].answers) = SentBeforeAwait(pass[s].todo)
  /\ LET p == pass[s]
         failed == Head(p.answers) = "failed"
         last == Len(p.todo) = 1
     IN  /\ syncStats' = [syncStats EXCEPT ![Engine(s)] = BodyStats(@, failed, last, p.counter)]
         /\ pass' = [pass EXCEPT ![s] =
              IF failed \/ last
              THEN Advance([p EXCEPT !.i = @ + 1, !.todo = <<>>, !.counter = "none",
                                     !.answers = <<>>], fieldDefs)
              ELSE [p EXCEPT !.todo = Tail(@), !.answers = Tail(@)]]
  /\ UNCHANGED <<cards, entries, fieldDefs, webhook, apiDup, nPasses, nFail, pollVars, fn,
                 edit, createdFor, change, timers>>

\* ------------------------------------------------ webhook/webhookServer.js
\* Webhook payloads: webhookData.action as [type, old], or no action.
NoAction == [none |-> TRUE]

WebhookPayloads ==
  { NoAction,
    [type |-> "updateCustomFieldItem", old |-> {}],
    [type |-> "updateCard", old |-> {"name"}],
    [type |-> "updateCard", old |-> {"idList"}],
    [type |-> "updateCard", old |-> {"desc"}],
    [type |-> "createCard", old |-> {}],
    [type |-> "commentCard", old |-> {}] }

\* shouldTriggerSync(webhookData).
shouldTriggerSync(action) ==
  IF action = NoAction THEN FALSE
  ELSE \/ action.type = "updateCustomFieldItem"
       \/ action.type = "updateCard" /\ ("name" \in action.old \/ "idList" \in action.old)
       \/ action.type = "createCard"

\* No request has reached the webhook receiver.
NoRequest == [status |-> 0, trigger |-> FALSE]

\* POST /webhook/trello with the payload action.  handleTrelloWebhook reads
\* config.webhook.secret before anything else; config/config.js defines the
\* sections trello, notion, sync and logging and no webhook section, so that
\* config.webhook is undefined and the read throws a TypeError for every
\* request.  The route catches it and answers 500.  The signature check,
\* shouldTriggerSync and the setImmediate that calls syncEngine.performSync()
\* stand after that line and are not reached: no pass is scheduled or started
\* and the engine of the receiver is left alone.  The request is recorded with
\* its answer and with whether its event is one shouldTriggerSync accepts.
HandleTrelloWebhook(action) ==
  /\ webhook' = [status |-> 500, trigger |-> shouldTriggerSync(action)]
  /\ UNCHANGED <<cards, entries, fieldDefs, apiDup, pass, syncStats, nPasses, nFail, pollVars,
                 fn, edit, createdFor, change, timers>>

\* ----------------------------------------------------------- initial states
AllFieldNames == NumFieldSet \cup {"Total Score", "Notion Link", "synced"}

\* The custom fields the board defines.
FieldDefChoices ==
  { AllFieldNames,
    AllFieldNames \ {"synced", "Notion Link"},
    {"Reach", "synced"} }

Item(k, v) == [k |-> k, v |-> v]

\* A card with the items of the fields the board defines.
CardWith(card, items, defs) ==
  [card EXCEPT !.items =
     [x \in {FieldId(n) : n \in defs} \cap DOMAIN items |-> items[x]]]

C1Profiles(defs) ==
  { CardWith(NewCard(CardC1, "A", DoingListId, 1),
             (FieldId("Reach") :> Item("number", "1000"))
               @@ (FieldId("synced") :> Item("checked", "true")), defs),
    NewCard(CardC1, "B", DoingListId, 1),
    CardWith(NewCard(CardC1, "A", ContentCurriculumListId, 1),
             (FieldId("Reach") :> Item("number", "2000"))
               @@ (FieldId("Impact") :> Item("number", "1000"))
               @@ (FieldId("Total Score") :> Item("number", "42000"))
               @@ (FieldId("synced") :> Item("checked", "true")), defs) }

C2Profiles(defs) ==
  { CardWith(NewCard(CardC2, "A ", ContentCurriculumListId, 2),
             (FieldId("synced") :> Item("checked", "true")), defs),
    CardWith(NewCard(CardC2, "A", DoingListId, 2),
             (FieldId("Reach") :> Item("number", "1000")), defs),
    CardWith(NewCard(CardC2, "7", DoingListId, 2),
             (FieldId("Reach") :> Item("number", "1000"))
               @@ (FieldId("synced") :> Item("checked", "false")), defs) }

Entry(id, title, dept, reach, trelloId, synced, total) ==
  [id |-> id, title |-> title, dept |-> dept, trelloId |-> trelloId,
   num |-> [NoNums EXCEPT !["Reach"] = reach], total |-> total,
   synced |-> synced, archived |-> FALSE]

E1Profiles ==
  { Entry(EntryE1, "A", "Doing", Num(1000), CardC1, TRUE, Null),
    Entry(EntryE1, "A2", "Content / Curriculum", Num(2000), CardC1, TRUE, Num(42000)),
    Entry(EntryE1, "B", "Nowhere", Null, "", FALSE, Null),
    Entry(EntryE1, "A", "Nowhere", Num(1000), CardC1, TRUE, Null),
    Entry(EntryE1, "A", "Doing", Null, GoneCardId, TRUE, Null),
    Entry(EntryE1, "A", "Doing", Null, GoneCardId, FALSE, Null) }

E2Profiles ==
  { Entry(EntryE2, "7", "Doing", Num(1000), CardC2, TRUE, Num(42000)),
    Entry(EntryE2, "D", "Content / Curriculum", Num(1000), "", FALSE, Null) }

\* The store that holds the records of a set (ids distinct).
Store(recs) == [id \in {r.id : r \in recs} |-> CHOOSE r \in recs : r.id = id]

OptionalOne(S) == {{}} \cup {{r} : r \in S}

\* ------------------------------------------------ the polling service
\* SyncService (src/services/syncService.js), PollingStrategy
\* (src/strategies/pollingStrategy.js) and validateConfig (src/config/config.js).
\* Times and intervals are in milliseconds.

MaxTime == 90000

MaxPolls == 3

MaxUpdates == 1

minPollInterval == 30000

maxPollInterval == 900000

retryDelay == 5000

DefaultPollInterval == 60000

DefaultSyncInterval == 30000

\* The numbers POLL_INTERVAL and updatePollInterval are tried with.
IntervalNumbers == {-5, 0, 29999, 30000, 900000, 900001}

\* process.env.POLL_INTERVAL: unset, not a number, or one of the numbers.
EnvPollIntervals == {Undefined, Str("abc")} \cup {Str(ToString(n)) : n \in IntervalNumbers}

\* parseInt on the values of the model.
parseInt(v) ==
  IF IsStr(v) /\ \E n \in IntervalNumbers : ToString(n) = v.str
  THEN Num(CHOOSE n \in IntervalNumbers : ToString(n) = v.str)
  ELSE NaN

\* config.sync.pollInterval: parseInt(process.env.POLL_INTERVAL) || 60000.
configPollInterval(raw) ==
  LET n == parseInt(raw)
  IN  IF IsNum(n) /\ n.num # 0 THEN n ELSE Num(DefaultPollInterval)

\* a < b in JavaScript: false as soon as one side is NaN (undefined converts
\* to NaN).
JsLess(a, b) == IsNum(a) /\ IsNum(b) /\ a.num < b.num

\* validateConfig(): throws when a required variable is missing or the
\* interval is below the minimum or above the maximum.
validateConfig(missing, pollInterval) ==
  IF missing THEN "throws"
  ELSE IF JsLess(pollInterval, Num(minPollInterval)) THEN "throws"
  ELSE IF JsLess(Num(maxPollInterval), pollInterval) THEN "throws"
  ELSE "returns"

\* The delay setInterval uses: 1 ms when the interval is not a number of at
\* least 1.
TimerDelay(interval) == IF IsNum(interval) /\ interval.num >= 1 THEN interval.num ELSE 1

\* new PollingStrategy(syncInterval) at time t: the constructor's default
\* applies to undefined.
NewPollingStrategy(gen, syncInterval, t) ==
  [gen          |-> gen,
   syncInterval |-> IF syncInterval = Undefined THEN Num(DefaultSyncInterval) ELSE syncInterval,
   lastSyncTime |-> t,
   isRunning    |-> FALSE,
   pollInterval |-> Null]

\* startPolling at time t: arms the interval timer (pollInterval holds the
\* time the timer is next due).
startPolling(st, t) ==
  IF st.isRunning THEN st
  ELSE [st EXCEPT !.isRunning = TRUE, !.pollInterval = Num(t + TimerDelay(st.syncInterval))]

stopPolling(st) == [st EXCEPT !.pollInterval = Null, !.isRunning = FALSE]

\* A variant of handleSyncFailure that does not wait.
handleSyncFailureWithoutDelay(t) == t

\* handleSyncFailure at time t: the time its timer of retryDelay is due.
handleSyncFailure(t) == t + retryDelay

\* The arguments updatePollInterval is called with.
UpdateInputs == {Num(29999), Num(30000), Num(900001), NaN, Undefined}

CheckSlots == {1, 2}

IdleCheck == [pc |-> "idle", gen |-> 0, at |-> 0, wake |-> 0, actions |-> 0, holds |-> FALSE]

\* Who uses the strategy: the SyncService (callback handleChanges) or another
\* caller of startPolling with a callback of its own.
Clients == {"SyncService", "caller"}

NoPoll == [no |-> 0, gen |-> 0, requestOk |-> FALSE, actions |-> 0, invoked |-> 0,
           callback |-> "none", end |-> 0]

\* The last pass that is over: when runFullSync settled, whether it resolved,
\* and whether a trigger was dropped during the retry delay that followed.
NoPass == [no |-> 0, end |-> 0, ok |-> TRUE, dropped |-> FALSE, result |-> "none", errors |-> 0]

NoUpdate == [count |-> 0, n |-> Null, threw |-> FALSE, same |-> TRUE]

\* No function of utils/mapping.js called yet.
NoCall == [op |-> "none", args |-> <<>>, result |-> Null]

\* No user has edited a linked pair.
NoEdit ==
  [side |-> "none", entry |-> "", card |-> "", aspect |-> "", value |-> Null, after |-> 0,
   inPass |-> FALSE]

\* The Board change that is followed has not been reported by a poll, and no
\* pass has started after it.
NoChange == [reported |-> FALSE, followed |-> FALSE]

\* No interval timer is set, no start() awaits, no call was made.
NoTimers == [active |-> {}, starting |-> 0, last |-> "none", calls |-> 0, overlapped |-> FALSE]

PollOff ==
  /\ now = 0
  /\ config = [client |-> "SyncService", missing |-> FALSE, pollInterval |-> Null]
  /\ service = [boot |-> "off", isRunning |-> FALSE, isSyncing |-> FALSE]
  /\ pollingStrategy = NewPollingStrategy(0, Undefined, 0)
  /\ checks = [c \in CheckSlots |-> IdleCheck]
  /\ lastPoll = NoPoll
  /\ lastPass = NoPass
  /\ lastUpdate = NoUpdate
  /\ fn = NoCall
  /\ edit = NoEdit
  /\ createdFor = {}
  /\ change = NoChange
  /\ timers = NoTimers

\* startSync (index of the service) in an environment with POLL_INTERVAL = raw
\* and the required variables missing or not: the configuration is loaded,
\* validateConfig, new SyncService, start.
StartSync(raw, missing) ==
  /\ service.boot = "init"
  /\ config.client = "SyncService"
  /\ LET pollInterval == configPollInterval(raw)
     IN  /\ config' = [config EXCEPT !.missing = missing, !.pollInterval = pollInterval]
         /\ IF validateConfig(missing, pollInterval) = "throws"
            THEN /\ service' = [service EXCEPT !.boot = "failed"]
                 /\ UNCHANGED pollingStrategy
            ELSE /\ service' = [boot |-> "running", isRunning |-> TRUE, isSyncing |-> FALSE]
                 /\ pollingStrategy' =
                      startPolling(NewPollingStrategy(1, pollInterval, now), now)
  /\ UNCHANGED <<syncVars, fn, edit, createdFor, change, now, checks, lastPoll, lastPass, lastUpdate, timers>>

\* Another caller constructs a strategy with the default interval and starts
\* it with its own callback.
StartPolling ==
  /\ service.boot = "init"
  /\ config.client = "caller"
  /\ service' = [service EXCEPT !.boot = "running"]
  /\ pollingStrategy' = startPolling(NewPollingStrategy(1, Undefined, now), now)
  /\ UNCHANGED <<syncVars, fn, edit, createdFor, change, now, config, checks, lastPoll, lastPass, lastUpdate, timers>>

\* The interval timer fires: checkForChanges sends its request.
TimerFires ==
  /\ service.boot = "running"
  /\ IsNum(pollingStrategy.pollInterval)
  /\ pollingStrategy.pollInterval.num <= now
  /\ lastPoll.no < MaxPolls
  /\ \E c \in CheckSlots :
       /\ checks[c].pc = "idle"
       /\ \A d \in CheckSlots : checks[d].pc = "idle" => c <= d
       /\ checks' = [checks EXCEPT ![c] = [pc |-> "request", gen |-> pollingStrategy.gen,
                                           at |-> 0, wake |-> 0, actions |-> 0,
                                           holds |-> FALSE]]
  /\ lastPoll' = [lastPoll EXCEPT !.no = @ + 1]
  /\ pollingStrategy' = [pollingStrategy EXCEPT
                           !.pollInterval = Num(now + TimerDelay(pollingStrategy.syncInterval))]
  /\ UNCHANGED <<syncVars, fn, edit, createdFor, change, now, config, service, lastPass, lastUpdate, timers>>

\* The numbers of actions the request of a poll can return.
ActionCounts == 0..2

\* A variant of onChangeCalls that calls the callback once for every action.
onChangeCallsPerAction(actions) == actions

\* if (actions.length > 0) await onChangeCallback({...}): the number of times
\* checkForChanges calls the callback when the request returned actions.
onChangeCalls(actions) == IF actions > 0 THEN 1 ELSE 0

\* A poll that is over: the strategy it ran on, whether its request succeeded,
\* how many actions it returned, how often the callback was called, what the
\* callback did and when checkForChanges ended.
Poll(c, requestOk, actions, callback) ==
  [no |-> lastPoll.no, gen |-> checks[c].gen, requestOk |-> requestOk, actions |-> actions,
   invoked |-> IF requestOk THEN onChangeCalls(actions) ELSE 0, callback |-> callback,
   end |-> now]

\* this.lastSyncTime = new Date() of the strategy the invocation runs on.
Advanced(st, c) == IF checks[c].gen = st.gen THEN [st EXCEPT !.lastSyncTime = now] ELSE st

\* A variant of SyncInProgress that lets every trigger through.
SyncInProgressNever(svc) == FALSE

\* handleChanges: if (this.isSyncing) return, the guard that drops a trigger
\* while a pass of the service is in flight or its retry delay runs.
SyncInProgress(svc) == svc.isSyncing

\* checkForChanges, from the answer to its request on: the request failed, it
\* returned no action, or it returned actions and the callback is called.
RequestReturns(c) ==
  /\ checks[c].pc = "request"
  /\ \E outcome \in {"fails", "none", "changes"}, n \in ActionCounts, cb \in {"returns", "throws"} :
       /\ outcome = "fails" => n = 0
       /\ outcome = "none" => onChangeCalls(n) = 0
       /\ outcome = "changes" => onChangeCalls(n) > 0
       /\ CASE outcome = "fails" ->
                 /\ cb = "returns"
                 /\ lastPoll' = Poll(c, FALSE, 0, "none")
                 /\ checks' = [checks EXCEPT ![c] = IdleCheck]
                 /\ UNCHANGED <<service, pollingStrategy, lastPass>>
            [] outcome = "none" ->
                 /\ cb = "returns"
                 /\ lastPoll' = Poll(c, TRUE, n, "none")
                 /\ checks' = [checks EXCEPT ![c] = IdleCheck]
                 /\ pollingStrategy' = Advanced(pollingStrategy, c)
                 /\ UNCHANGED <<service, lastPass>>
            [] outcome = "changes" /\ config.client = "SyncService" /\ SyncInProgress(service) ->
                 /\ cb = "returns"
                 /\ lastPass' = IF \E d \in CheckSlots : checks[d].pc = "delay"
                                THEN [lastPass EXCEPT !.dropped = TRUE]
                                ELSE lastPass
                 /\ lastPoll' = Poll(c, TRUE, n, "skipped")
                 /\ checks' = [checks EXCEPT ![c] = IdleCheck]
                 /\ pollingStrategy' = Advanced(pollingStrategy, c)
                 /\ UNCHANGED service
            [] outcome = "changes" /\ config.client = "SyncService" /\ ~SyncInProgress(service) ->
                 /\ cb = "returns"
                 /\ service' = [service EXCEPT !.isSyncing = TRUE]
                 /\ checks' = [checks EXCEPT ![c] = [@ EXCEPT !.pc = "sync", !.at = now,
                                                                   !.actions = n]]
                 /\ UNCHANGED <<pollingStrategy, lastPoll, lastPass>>
            [] outcome = "changes" /\ config.client = "caller" /\ cb = "returns" ->
                 /\ lastPoll' = Poll(c, TRUE, n, "returned")
                 /\ checks' = [checks EXCEPT ![c] = IdleCheck]
                 /\ pollingStrategy' = Advanced(pollingStrategy, c)
                 /\ UNCHANGED <<service, lastPass>>
            [] OTHER ->
                 /\ outcome = "changes" /\ config.client = "caller" /\ cb = "throws"
                 /\ lastPoll' = Poll(c, TRUE, n, "threw")
                 /\ checks' = [checks EXCEPT ![c] = IdleCheck]
                 /\ UNCHANGED <<service, pollingStrategy, lastPass>>
  /\ UNCHANGED <<syncVars, fn, edit, createdFor, change, now, config, lastUpdate, timers>>

\* main of the script runFullSync spawns: the exit code of the process.  It
\* calls process.exit(1) when performSync threw and when the stats it returned
\* count an error; otherwise the process ends with code 0.
main(result, errors) == IF result = "thrown" \/ errors > 0 THEN 1 ELSE 0

\* runFullSync settles: the child process closes with exit code 0 (the pass
\* is over, handleChanges returns and checkForChanges assigns lastSyncTime)
\* or with another code (handleChanges catches and calls handleSyncFailure).
SyncProcessCloses(c) ==
  /\ checks[c].pc = "sync"
  /\ \E result \in {"returned", "thrown"}, errors \in {0, 1} :
       /\ result = "thrown" => errors > 0
       /\ lastPass' = [no |-> lastPass.no + 1, end |-> now, ok |-> main(result, errors) = 0,
                       dropped |-> FALSE, result |-> result, errors |-> errors]
       /\ IF main(result, errors) = 0
          THEN /\ service' = [service EXCEPT !.isSyncing = FALSE]
               /\ lastPoll' = Poll(c, TRUE, checks[c].actions, "returned")
               /\ checks' = [checks EXCEPT ![c] = IdleCheck]
               /\ pollingStrategy' = Advanced(pollingStrategy, c)
          ELSE /\ checks' = [checks EXCEPT ![c] = [@ EXCEPT !.pc = "delay",
                                                             !.wake = handleSyncFailure(now)]]
               /\ UNCHANGED <<service, pollingStrategy, lastPoll>>
  /\ UNCHANGED <<syncVars, fn, edit, createdFor, change, now, config, lastUpdate, timers>>

\* The timer of handleSyncFailure fires: handleChanges clears isSyncing and
\* returns, checkForChanges assigns lastSyncTime.
RetryDelayElapsed(c) ==
  /\ checks[c].pc = "delay"
  /\ checks[c].wake <= now
  /\ service' = [service EXCEPT !.isSyncing = FALSE]
  /\ lastPoll' = Poll(c, TRUE, checks[c].actions, "returned")
  /\ checks' = [checks EXCEPT ![c] = IdleCheck]
  /\ pollingStrategy' = Advanced(pollingStrategy, c)
  /\ UNCHANGED <<syncVars, fn, edit, createdFor, change, now, config, lastPass, lastUpdate, timers>>

\* updatePollInterval(newInterval) up to the await of its start(): the range
\* check (the call rejects), stop() when the service was running, a new
\* strategy in place of the current one and, when the service was running,
\* start() up to its await: startPolling arms the timer and the call returns
\* to its caller with this.isRunning still false.
UpdatePollInterval(newInterval) ==
  /\ service.boot = "running"
  /\ config.client = "SyncService"
  /\ lastUpdate.count < MaxUpdates
  /\ IF \/ JsLess(newInterval, Num(minPollInterval))
        \/ JsLess(Num(maxPollInterval), newInterval)
     THEN /\ lastUpdate' = [count |-> lastUpdate.count + 1, n |-> newInterval,
                            threw |-> TRUE, same |-> TRUE]
          /\ UNCHANGED <<service, pollingStrategy, timers>>
     ELSE LET wasRunning == service.isRunning
              fresh == NewPollingStrategy(pollingStrategy.gen + 1, newInterval, now)
              started == IF wasRunning THEN startPolling(fresh, now) ELSE fresh
          IN  /\ pollingStrategy' = started
              /\ service' = [service EXCEPT !.isRunning = FALSE]
              /\ timers' = [timers EXCEPT !.starting = IF wasRunning THEN @ + 1 ELSE @]
              /\ lastUpdate' = [count |-> lastUpdate.count + 1, n |-> newInterval,
                                threw |-> FALSE, same |-> started = pollingStrategy]
  /\ UNCHANGED <<syncVars, fn, edit, createdFor, change, now, config, checks, lastPoll, lastPass>>

\* start() after its await, in the microtask that follows the call:
\* this.isRunning = true.
StartResumes ==
  /\ timers.starting > 0
  /\ service' = [service EXCEPT !.isRunning = TRUE]
  /\ timers' = [timers EXCEPT !.starting = @ - 1, !.last = "resumed"]
  /\ UNCHANGED <<syncVars, now, config, pollingStrategy, checks, lastPoll, lastPass, lastUpdate,
                 fn, edit, createdFor, change>>

\* No start() awaits: the microtasks of the tick have run, so that a timer
\* can fire, an answer can arrive and time can pass.  While a start() awaits
\* only its caller runs: it can call stop(); a further updatePollInterval in
\* that tick, which leaves the timer of the replaced strategy set, is
\* followed in SpecTimers.
TickOver == timers.starting = 0

\* stop(), on a shutdown signal.
Stop ==
  /\ service.boot = "running"
  /\ config.client = "SyncService"
  /\ service.isRunning
  /\ pollingStrategy' = stopPolling(pollingStrategy)
  /\ service' = [service EXCEPT !.isRunning = FALSE]
  /\ UNCHANGED <<syncVars, fn, edit, createdFor, change, now, config, checks, lastPoll, lastPass, lastUpdate, timers>>

\* A timer that is due fires, and a request that is in flight is answered,
\* before the clock moves on.
TimerDue ==
  \/ \E c \in CheckSlots : checks[c].pc = "request"
  \/ /\ IsNum(pollingStrategy.pollInterval)
     /\ pollingStrategy.pollInterval.num <= now
     /\ lastPoll.no < MaxPolls
     /\ \E c \in CheckSlots : checks[c].pc = "idle"
  \/ \E c \in CheckSlots : checks[c].pc = "delay" /\ checks[c].wake <= now

\* Time passes.
Tick ==
  /\ service.boot = "running"
  /\ now < MaxTime
  /\ ~TimerDue
  /\ now' = now + retryDelay
  /\ UNCHANGED <<syncVars, fn, edit, createdFor, change, config, service, pollingStrategy, checks, lastPoll, lastPass, lastUpdate, timers>>

InitControl ==
  /\ pass = [s \in Slots |-> IdlePass]
  /\ syncStats = [e \in Engines |-> ZeroStats]
  /\ nPasses = 0
  /\ nFail = 0
  /\ PollOff

\* The scheduled script on a board and a database in any of the bounded
\* initial conditions.
Init ==
  /\ fieldDefs \in FieldDefChoices
  /\ \E a \in OptionalOne(C1Profiles(fieldDefs)), b \in OptionalOne(C2Profiles(fieldDefs)) :
       cards = Store(a \cup b)
  /\ \E a \in OptionalOne(E1Profiles), b \in OptionalOne(E2Profiles) :
       entries = Store(a \cup b)
  /\ webhook = NoRequest
  /\ apiDup = NoDup
  /\ InitControl

Next ==
  \/ PerformSync("main")
  \/ SyncTrelloToNotion("main")
  \/ GetCardsAgain("main")
  \/ SyncNotionToTrello("main")
  \/ SyncTotalScoreToTrello("main")
  \/ DeleteNotion("main")
  \/ DeleteTrello("main")

Spec == Init /\ [][Next]_vars

\* One SyncEngine on which performSync() is called twice, the second time
\* before the first call has settled: a fresh card and an entry that is not
\* linked yet.
InitEngine ==
  /\ fieldDefs = AllFieldNames
  /\ cards \in {Store({NewCard(CardC1, "B", DoingListId, 1)}), Store({})}
  /\ entries \in {Store({Entry(EntryE1, "B", "Doing", Num(1000), "", FALSE, Num(42000))})}
  /\ webhook = NoRequest
  /\ apiDup = NoDup
  /\ InitControl

\* The slot in which the next performSync() call on the engine is followed:
\* the first one that holds no pass in flight.
FreeSlot ==
  IF pass["first"].pc \in {"idle", "done"} THEN "first" ELSE "second"

\* The pass in slot s is running: it stands at a loop body that makes no
\* call, between two awaits, and goes on to its next await or to its return
\* before any other code of the process runs.
Runs(s) ==
  /\ pass[s].pc \in LoopPhases
  /\ pass[s].answers = <<>> /\ pass[s].todo = <<>>
  /\ HasFreshId(NewEntryIds, DOMAIN entries) /\ HasFreshId(NewCardIds, DOMAIN cards)
  /\ BodyOf(pass[s], [cards |-> cards, entries |-> entries], fieldDefs).plan = <<>>

\* Code of the caller or of the pass in slot s can run: no other pass of the
\* process is running.
EngineTurn(s) == \A t \in SharedSlots \ {s} : ~Runs(t)

\* The caller calls performSync() when no pass is running, the engine's
\* passes handle their answers one at a time, and the remote stores take the
\* calls that were sent at any moment.
NextEngine ==
  \E s \in SharedSlots :
    \/ EngineTurn(s) /\ s = FreeSlot /\ PerformSyncResetStats(s)
    \/ EngineTurn(s) /\ PerformSyncListing(s)
    \/ EngineTurn(s) /\ BodyWithoutCall(s)
    \/ AwaitedCallTakesEffect(s)
    \/ EngineTurn(s) /\ AwaitedCallAnswered(s)
    \/ EngineTurn(s) /\ GetCardsAgain(s)

SpecEngine == InitEngine /\ [][NextEngine]_vars

\* The scheduled script on a board whose listing API returns card CardC1
\* twice in each response.
InitDup ==
  /\ fieldDefs \in FieldDefChoices
  /\ \E a \in C1Profiles(fieldDefs), b \in OptionalOne(C2Profiles(fieldDefs)) :
       cards = Store({a} \cup b)
  /\ \E a \in OptionalOne(E1Profiles) : entries = Store(a)
  /\ webhook = NoRequest
  /\ apiDup \in {[id |-> CardC1, stale |-> FALSE], [id |-> CardC1, stale |-> TRUE]}
  /\ InitControl

SpecDup == InitDup /\ [][Next]_vars

\* The polling service from its start on, in any of the bounded environments;
\* the board and the database are left alone (the pass runs in a child
\* process, of which the service sees the exit code).
InitPoll ==
  /\ cards = Store({})
  /\ entries = Store({})
  /\ fieldDefs = {}
  /\ webhook = NoRequest
  /\ apiDup = NoDup
  /\ pass = [s \in Slots |-> IdlePass]
  /\ syncStats = [e \in Engines |-> ZeroStats]
  /\ nPasses = 0
  /\ nFail = 0
  /\ now = 0
  /\ config \in [client : Clients, missing : {FALSE}, pollInterval : {Null}]
  /\ service = [boot |-> "init", isRunning |-> FALSE, isSyncing |-> FALSE]
  /\ pollingStrategy = NewPollingStrategy(0, Undefined, 0)
  /\ checks = [c \in CheckSlots |-> IdleCheck]
  /\ lastPoll = NoPoll
  /\ lastPass = NoPass
  /\ lastUpdate = NoUpdate
  /\ fn = NoCall
  /\ edit = NoEdit
  /\ createdFor = {}
  /\ change = NoChange
  /\ timers = NoTimers

NextPoll ==
  \/ \E raw \in EnvPollIntervals, missing \in BOOLEAN : StartSync(raw, missing)
  \/ StartPolling
  \/ TickOver /\ TimerFires
  \/ TickOver /\ \E c \in CheckSlots : RequestReturns(c)
  \/ TickOver /\ \E c \in CheckSlots : SyncProcessCloses(c)
  \/ TickOver /\ \E c \in CheckSlots : RetryDelayElapsed(c)
  \/ TickOver /\ \E n \in UpdateInputs : UpdatePollInterval(n)
  \/ StartResumes
  \/ Stop
  \/ TickOver /\ Tick

SpecPoll == InitPoll /\ [][NextPoll]_vars


\* ------------------------------------------------ utils/mapping.js on its own
\* The values hasChanged is called with.
JsValues ==
  {Null, Undefined, NaN} \cup {Num(n) : n \in NumValues}
    \cup {Str(x) : x \in {"", "A", "A ", "B", " B", "1000", "1001", "true"}}
    \cup {Bool(TRUE), Bool(FALSE)}

\* hasChanged(value1, value2) on a pair of values.
HasChanged(value1, value2) ==
  /\ fn' = [op |-> "hasChanged", args |-> <<value1, value2>>,
            result |-> Bool(hasChanged(value1, value2))]
  /\ UNCHANGED <<syncVars, pollVars, edit, createdFor, change, timers>>

\* The titles of the cards and the values of their numeric fields the round
\* trip is tried with: the number of a Trello item (a string), 0 for an item
\* without value, or no item.
RoundTripTitles == {"", "A", "A ", "B"}

RoundTripValues == {Undefined, Str("0"), Str("1000"), Num(0)}

\* The entry whose properties are the result of mapTrelloToNotion, as
\* mapNotionToTrello reads it (properties.X?.number).
AsEntry(properties) ==
  [title |-> properties.title,
   num   |-> [f \in NumFieldSet |->
                IF f \in DOMAIN properties.num THEN properties.num[f] ELSE Undefined]]

\* mapNotionToTrello({properties: mapTrelloToNotion(card, customFields, listName)});
\* the call is recorded with the card's title and its custom fields.
RoundTrip(trelloCard, customFields, listName) ==
  /\ fn' = [op |-> "roundTrip", args |-> <<trelloCard.name, customFields>>,
            result |-> mapNotionToTrello(AsEntry(mapTrelloToNotion(trelloCard, customFields,
                                                                   listName)))]
  /\ UNCHANGED <<syncVars, pollVars, edit, createdFor, change, timers>>

InitFn ==
  /\ cards = Store({})
  /\ entries = Store({})
  /\ fieldDefs = {}
  /\ webhook = NoRequest
  /\ apiDup = NoDup
  /\ InitControl

NextFn ==
  \/ \E value1, value2 \in JsValues : HasChanged(value1, value2)
  \/ \E title \in RoundTripTitles, values \in [NumFieldSet -> RoundTripValues] :
       RoundTrip(NewCard(CardC1, title, DoingListId, 1),
                 [f \in {g \in NumFieldSet : values[g] # Undefined} |-> values[f]],
                 "Doing")

SpecFn == InitFn /\ [][NextFn]_vars

\* ------------------------------------------------------------- properties
\* The calls a pass has issued so far that change a remote record.
WriteCalls(p) == {k \in 1..Len(p.calls) : p.calls[k].op \in WriteOps}

FailedCalls(p) == {k \in 1..Len(p.calls) : ~p.calls[k].ok}

OkCalls(p, op) == {k \in 1..Len(p.calls) : p.calls[k].op = op /\ p.calls[k].ok}

FetchedCardIds(p) == {p.trelloCards[k].id : k \in 1..Len(p.trelloCards)}

\* The fetched entries that are synced and whose Trello id is the id of no
\* fetched card.
DanglingSynced(p) ==
  {k \in 1..Len(p.notionEntries) :
     /\ p.notionEntries[k].synced
     /\ p.notionEntries[k].trelloId # ""
     /\ p.notionEntries[k].trelloId \notin FetchedCardIds(p)}

ArchiveCalls(p, id) ==
  {k \in 1..Len(p.calls) : p.calls[k].op = "deletePage" /\ p.calls[k].id = id}

SyncedMarker(card) == getTrelloCheckboxCustomFieldValue(card, FieldId("synced"))

\* The entries of the database, not archived, that reference the card.
Referencing(es, cardId) == {e \in DOMAIN es : ~es[e].archived /\ es[e].trelloId = cardId}

CardExists(cs, cardId) == cardId \in DOMAIN cs /\ ~cs[cardId].deleted

NewlyDeleted == {c \in DOMAIN cards : ~cards[c].deleted /\ cards'[c].deleted}

NewlyArchived == {e \in DOMAIN entries : ~entries[e].archived /\ entries'[e].archived}

\* C1: idempotence.  The second of two passes in succession, with no remote
\* call failing, issues no call that creates or changes a record.
C1_SecondPassIssuesNoWrite ==
  \A s \in MainSlots :
    (pass[s].no = 2 /\ nFail = 0 /\ FailedCalls(pass[s]) = {}) => WriteCalls(pass[s]) = {}

\* C2: deletion only by the synced convention.  A card is deleted only when
\* its synced box is checked and no entry references it, an entry is archived
\* only when it is synced and its Trello id is not empty and is the id of no
\* card of the board, and only the deletion step deletes or archives.
C2_DeletionOnlyWhenCounterpartAbsent ==
  [][ /\ \A c \in NewlyDeleted :
           SyncedMarker(cards[c]) /\ Referencing(entries, c) = {}
      /\ \A e \in NewlyArchived :
           /\ entries[e].synced
           /\ entries[e].trelloId # ""
           /\ ~CardExists(cards, entries[e].trelloId)
      /\ (NewlyDeleted # {} \/ NewlyArchived # {}) =>
           \E s \in Slots : pass[s].pc \in {"deleteNotion", "deleteTrello"} ]_vars

\* C3: an entry that is not synced is never archived and a card whose synced
\* box is not checked is never deleted.
C3_UnsyncedNeverDeleted ==
  [][ /\ \A e \in NewlyArchived : entries[e].synced
      /\ \A c \in NewlyDeleted : SyncedMarker(cards[c]) ]_vars

\* An unsynced entry with a dangling Trello id, and an unsynced card that no
\* entry references, have survived a pass whose deletion step has run.
C3_Witness ==
  /\ pass["main"].pc = "done" /\ pass["main"].result = "returned"
  /\ "synced" \in fieldDefs
  /\ \E k \in 1..Len(pass["main"].notionEntries) :
       LET e == pass["main"].notionEntries[k]
       IN  /\ ~e.synced /\ e.trelloId = GoneCardId
           /\ ~entries[e.id].archived
  /\ \E k \in 1..Len(pass["main"].trelloCards) :
       LET c == pass["main"].trelloCards[k]
       IN  /\ ~SyncedMarker(c)
           /\ \A j \in 1..Len(pass["main"].notionEntries) :
                pass["main"].notionEntries[j].trelloId # c.id
           /\ ~cards[c.id].deleted

\* C4 as stated: in every pass, for each fetched entry that is synced and
\* whose Trello id matches no fetched card, exactly one archive call is issued.
C4_OneArchiveCallInEveryPass ==
  \A s \in MainSlots :
    pass[s].pc = "done" =>
      \A k \in DanglingSynced(pass[s]) :
        Cardinality(ArchiveCalls(pass[s], pass[s].notionEntries[k].id)) = 1

\* The passes that reach handleDeletionSync on a board that defines the
\* 'synced' field: performSync returns, and for each fetched entry that is
\* synced and whose Trello id matches no fetched card exactly one archive call
\* was issued.
OneArchiveCallWhenDeletionRuns ==
  \A s \in MainSlots :
    (pass[s].pc = "done" /\ pass[s].result = "returned" /\ "synced" \in fieldDefs) =>
      \A k \in DanglingSynced(pass[s]) :
        Cardinality(ArchiveCalls(pass[s], pass[s].notionEntries[k].id)) = 1

\* C5: cards with the same title are not merged.  The listing a pass works on
\* holds every open card of the board, whatever the titles of the others.
C5_SameTitleCardsAllListed ==
  [][ \A s \in Slots :
        (pass'[s].no # pass[s].no /\ pass'[s].failedListings = {}) =>
          \A c \in DOMAIN cards, d \in DOMAIN cards :
            (c # d /\ ~cards[c].deleted /\ ~cards[d].deleted
               /\ cards[c].name = cards[d].name) =>
              {c, d} \subseteq FetchedCardIds(pass'[s]) ]_vars

\* C6: a 'Trello ID' that holds a card id is never overwritten with another
\* value, by any pass of a sequence of passes.
C6_TrelloIdNeverOverwritten ==
  [][ \A e \in DOMAIN entries :
        entries[e].trelloId # "" => entries'[e].trelloId = entries[e].trelloId ]_vars

\* The second pass of a sequence has written to an entry that held a Trello
\* id when the pass fetched it (syncTrelloToNotion updated it with the
\* properties of its card), and the entry holds that id still.
C6_Witness ==
  \E s \in MainSlots :
    /\ pass[s].pc = "done" /\ pass[s].no = 2
    /\ \E k \in OkCalls(pass[s], "updateEntry") :
         LET c == pass[s].calls[k]
         IN  /\ c.ph = "syncTrelloToNotion"
             /\ \E j \in 1..Len(pass[s].notionEntries) :
                  /\ pass[s].notionEntries[j].id = c.id
                  /\ pass[s].notionEntries[j].trelloId # ""
                  /\ entries[c.id].trelloId = pass[s].notionEntries[j].trelloId

\* The passes of the polling service that are in flight: runFullSync has
\* spawned the process of the pass and the process has not closed.
PollingPassesInFlight == {c \in CheckSlots : checks[c].pc = "sync"}

\* The performSync() calls on the engine of the webhook receiver and of any
\* other caller that are in flight.
EnginePassesInFlight == {s \in SharedSlots : pass[s].pc \notin {"idle", "done"}}

\* C7: neither trigger source starts a pass while one of its passes is in
\* flight, and a trigger that arrives meanwhile is dropped for good.  The
\* polling service starts a pass only in the step in which a poll hands its
\* own response to handleChanges, and only when no pass of the service is in
\* flight; while isSyncing is set no step starts one.  A request to the
\* webhook receiver starts no pass at all: it is answered 500 and leaves the
\* engine and the polling service as they were.
C7_NoPassStartedDuringPassOfSameSource ==
  [][ /\ \A c \in CheckSlots :
           (checks[c].pc # "sync" /\ checks'[c].pc = "sync") =>
             /\ checks[c].pc = "request"
             /\ PollingPassesInFlight = {}
             /\ ~service.isSyncing
      /\ Cardinality(PollingPassesInFlight') <= 1
      /\ webhook' # webhook =>
           /\ webhook'.status = 500
           /\ pass' = pass /\ nPasses' = nPasses
           /\ checks' = checks /\ service' = service
      /\ EnginePassesInFlight' = {} ]_vars

\* A poll has reported changes while a pass of the service was in flight and
\* its trigger was dropped, the pass being in flight still; and the webhook
\* receiver was sent an event that shouldTriggerSync accepts.
C7_Witness ==
  /\ lastPoll.callback = "skipped"
  /\ PollingPassesInFlight # {}
  /\ webhook.status = 500 /\ webhook.trigger

\* C8: a remote call that fails inside a loop body does not make performSync
\* throw.  The step counts exactly one error, the loop goes on with the next
\* record, and a pass that ends with this step returns the statistics.
C8_PerRecordFailureIsCaught ==
  [][ \A s \in MainSlots :
        ( /\ Len(pass'[s].calls) > Len(pass[s].calls)
          /\ ~pass'[s].calls[Len(pass'[s].calls)].ok
          /\ pass'[s].calls[Len(pass'[s].calls)].op # "getCards" ) =>
          /\ syncStats'[Engine(s)].errors = syncStats[Engine(s)].errors + 1
          /\ syncStats'[Engine(s)].trelloToNotion = syncStats[Engine(s)].trelloToNotion
          /\ syncStats'[Engine(s)].notionToTrello = syncStats[Engine(s)].notionToTrello
          /\ pass'[s].result # "thrown"
          /\ pass'[s].pc = pass[s].pc => pass'[s].i = pass[s].i + 1
          /\ pass'[s].pc = "done" => pass'[s].result = "returned" ]_vars

\* A pass has returned although a call of a loop body failed, and a later
\* record was processed with a call that succeeded.
C8_Witness ==
  /\ pass["main"].pc = "done" /\ pass["main"].result = "returned"
  /\ syncStats["main"].errors = 1
  /\ \E k \in FailedCalls(pass["main"]) :
       \E j \in (k + 1)..Len(pass["main"].calls) :
         pass["main"].calls[j].ok /\ pass["main"].calls[j].id # pass["main"].calls[k].id

\* C9: when one of the four listings fails, performSync counts an error and
\* throws, and the pass issues no call for any record.
C9_ListingFailureIsFatal ==
  \A s \in MainSlots :
    pass[s].failedListings # {} =>
      /\ pass[s].pc = "done" /\ pass[s].result = "thrown"
      /\ syncStats[Engine(s)].errors = 1
      /\ syncStats[Engine(s)].trelloToNotion = ZeroStats.trelloToNotion
      /\ syncStats[Engine(s)].notionToTrello = ZeroStats.notionToTrello
      /\ pass[s].calls = <<>>
      /\ pass[s].trelloCards = <<>> /\ pass[s].notionEntries = <<>>

\* The listing of the entries alone has failed on a board and a database that
\* hold records to process.
C9_Witness ==
  /\ pass["main"].failedListings = {"getEntries"}
  /\ pass["main"].result = "thrown"
  /\ OpenCards(cards) # <<>> /\ getEntries(entries) # <<>>

\* C10: the created counters count every record the pass created remotely.
C10_CreatedCountsEveryCreation ==
  \A s \in MainSlots :
    /\ syncStats[Engine(s)].notionToTrello.created >= Cardinality(OkCalls(pass[s], "createCard"))
    /\ syncStats[Engine(s)].trelloToNotion.created >= Cardinality(OkCalls(pass[s], "createEntry"))

\* The calls of a pass that set the Total Score field of a card.
TotalScoreCallsFor(p, cardId) ==
  {k \in 1..Len(p.calls) :
     /\ p.calls[k].op = "updateCustomField"
     /\ p.calls[k].field = FieldId("Total Score")
     /\ p.calls[k].id = cardId}

\* C11: Total Score propagation.  In a pass without failure, for each fetched
\* entry linked to a listed card, exactly one call sets the card's Total Score
\* when the entry's value differs from the card's, and none when it does not
\* (as in a following pass with unchanged values).
C11_OneTotalScoreCallIffDiffers ==
  \A s \in MainSlots :
    LET p == pass[s]
    IN  ( /\ p.pc = "done" /\ p.result = "returned"
          /\ nFail = 0 /\ FailedCalls(p) = {}
          /\ "Total Score" \in fieldDefs ) =>
          \A k \in 1..Len(p.notionEntries) :
            LET e == p.notionEntries[k]
            IN  (e.trelloId \in DOMAIN p.cardMap /\ ~IsNull(e.total)) =>
                  Cardinality(TotalScoreCallsFor(p, e.trelloId)) =
                    IF hasChanged(getTrelloCustomFieldValue(p.cardMap[e.trelloId],
                                                            FieldId("Total Score")),
                                  e.total)
                    THEN 1 ELSE 0

\* The Notion operations the Board→Database loop of a pass issued for a card.
DatabaseOpsFor(p, cardId) ==
  {k \in 1..Len(p.calls) :
     /\ p.calls[k].ph = "syncTrelloToNotion"
     /\ p.calls[k].op \in {"createEntry", "updateEntry"}
     /\ p.calls[k].arg.trelloId = cardId}

DeleteCardCalls(p, cardId) ==
  {k \in 1..Len(p.calls) : p.calls[k].op = "deleteCard" /\ p.calls[k].id = cardId}

\* C12: when a listing holds a card id twice, the pass uses the first
\* occurrence only.  The Board→Database loop issues at most one Notion
\* operation for the id, and that one carries the title of the first
\* occurrence; the card map of the Database→Board loop holds the first
\* occurrence; the deletion loop handles the id once.
C12_FirstOccurrenceOnly ==
  \A s \in MainSlots :
    LET p == pass[s]
    IN  (apiDup # NoDup /\ p.no >= 1 /\ p.failedListings = {}) =>
          /\ Cardinality(DatabaseOpsFor(p, apiDup.id)) <= 1
          /\ \A k \in DatabaseOpsFor(p, apiDup.id) : p.calls[k].arg.title # StaleTitle
          /\ (p.cardMap # <<>> /\ apiDup.id \in DOMAIN p.cardMap) =>
               p.cardMap[apiDup.id].name # StaleTitle
          /\ Cardinality(DeleteCardCalls(p, apiDup.id)) <= 1

\* The fetched cards of a pass that no fetched entry references.
Unreferenced(p) ==
  {k \in 1..Len(p.trelloCards) :
     \A j \in 1..Len(p.notionEntries) : p.notionEntries[j].trelloId # p.trelloCards[k].id}

CreateEntryCalls(p, cardId) ==
  {n \in 1..Len(p.calls) :
     /\ p.calls[n].ph = "syncTrelloToNotion"
     /\ p.calls[n].op = "createEntry"
     /\ p.calls[n].arg.trelloId = cardId}

\* The name of the list of the board with an id.
ListNameOf(listId) == BoardLists[CHOOSE k \in 1..Len(BoardLists) : BoardLists[k].id = listId].name

\* The numeric fields that hold a number on a card.
NumericFieldsSet(card) ==
  {f \in NumFieldSet : FieldId(f) \in DOMAIN card.items /\ card.items[FieldId(f)].k = "number"}

\* C13: once the Board→Database loop of a pass is over, for every fetched card
\* that no fetched entry references exactly one create call was issued, with
\* the card's title, Department = the name of the card's list, 'Trello ID' =
\* the card's id, synced = true and every numeric field set on the card; and
\* trelloToNotion.created is the number of create calls that succeeded.
C13_OneCreatePerUnreferencedCard ==
  \A s \in MainSlots :
    LET p == pass[s]
    IN  (p.failedListings = {} /\ p.pc \notin {"idle", "syncTrelloToNotion"}) =>
          /\ \A k \in Unreferenced(p) :
               LET c == p.trelloCards[k]
               IN  /\ Cardinality(CreateEntryCalls(p, c.id)) = 1
                   /\ \A n \in CreateEntryCalls(p, c.id) :
                        /\ p.calls[n].arg.title = c.name
                        /\ p.calls[n].arg.dept = ListNameOf(c.idList)
                        /\ p.calls[n].arg.synced = TRUE
                        /\ \A f \in NumericFieldsSet(c) :
                             /\ f \in DOMAIN p.calls[n].arg.num
                             /\ ToString(p.calls[n].arg.num[f].num) = c.items[FieldId(f)].v
          /\ syncStats[Engine(s)].trelloToNotion.created
               = Cardinality(OkCalls(p, "createEntry"))

\* A pass has created the entry of a card that had none, with its Reach.
C13_Witness ==
  /\ pass["main"].pc = "done" /\ pass["main"].result = "returned"
  /\ syncStats["main"].trelloToNotion.created = 1
  /\ \E k \in Unreferenced(pass["main"]) :
       /\ "Reach" \in NumericFieldsSet(pass["main"].trelloCards[k])
       /\ \E n \in CreateEntryCalls(pass["main"], pass["main"].trelloCards[k].id) :
            pass["main"].calls[n].ok


\* The fetched entries of a pass that have no 'Trello ID'.
UnlinkedEntries(p) == {k \in 1..Len(p.notionEntries) : p.notionEntries[k].trelloId = ""}

CreateCardCalls(p) ==
  {n \in 1..Len(p.calls) : p.calls[n].ph = "syncNotionToTrello" /\ p.calls[n].op = "createCard"}

\* The default group of a new card: of the name -> id map of the groups the
\* first value, which is the group "2024" (a name that is the canonical form
\* of an integer comes before the other names).
DefaultGroup == BoardLists[3]

\* The list a new card of an entry goes to: the one named by Department, the
\* default group when no list has that name.
ResolvedList(dept) ==
  IF \E k \in 1..Len(BoardLists) : BoardLists[k].name = dept
  THEN BoardLists[CHOOSE k \in 1..Len(BoardLists) : BoardLists[k].name = dept].id
  ELSE DefaultGroup.id

\* The Database→Board loop of the pass is over.
PastNotionToTrello(p) ==
  /\ p.failedListings = {}
  /\ p.pc \in {"syncTotalScoreToTrello", "deleteNotion", "deleteTrello", "done"}
  /\ p.result # "thrown"

\* The create call n of a pass was made for the fetched entry k: the call that
\* follows it writes the new id into that entry.
CreatedFor(p, n, k) ==
  /\ n + 1 <= Len(p.calls)
  /\ p.calls[n + 1].op = "updateEntry"
  /\ p.calls[n + 1].id = p.notionEntries[k].id
  /\ p.calls[n + 1].arg.trelloId = p.calls[n].id
  /\ p.calls[n].arg.name = (IF p.notionEntries[k].title # "" THEN p.notionEntries[k].title
                             ELSE "Untitled")
  /\ p.calls[n].arg.idList = ResolvedList(p.notionEntries[k].dept)

\* C14: once the Database→Board loop of a pass is over, one card was created
\* for every fetched entry without 'Trello ID' (title from the entry, list
\* resolved from Department, the first list when no list has that name), the
\* new id was written into the entry, every card created is counted in
\* notionToTrello.created, and the entry of every card created holds the new
\* card's id.
C14_CreatedCardIsLinkedAndCounted ==
  \A s \in MainSlots :
    LET p == pass[s]
    IN  PastNotionToTrello(p) =>
          /\ Cardinality(CreateCardCalls(p)) = Cardinality(UnlinkedEntries(p))
          /\ \A n \in CreateCardCalls(p) :
               p.calls[n].ok =>
                 \E k \in UnlinkedEntries(p) :
                   /\ CreatedFor(p, n, k)
                   /\ entries[p.notionEntries[k].id].trelloId = p.calls[n].id
          /\ syncStats[Engine(s)].notionToTrello.created
               = Cardinality({n \in CreateCardCalls(p) : p.calls[n].ok})

\* The same statement for the passes in which no remote call failed.
C14_WhenNoCallFails ==
  \A s \in MainSlots :
    LET p == pass[s]
    IN  (PastNotionToTrello(p) /\ FailedCalls(p) = {}) =>
          /\ Cardinality(CreateCardCalls(p)) = Cardinality(UnlinkedEntries(p))
          /\ \A k \in UnlinkedEntries(p) :
               \E n \in CreateCardCalls(p) :
                 /\ CreatedFor(p, n, k)
                 /\ entries[p.notionEntries[k].id].trelloId = p.calls[n].id
          /\ syncStats[Engine(s)].notionToTrello.created = Cardinality(UnlinkedEntries(p))


\* The value a card holds for a numeric field, as the pass reads it: null when
\* the board does not define the field or the card has no item for it.
CardFieldValue(card, f) ==
  IF f \in fieldDefs /\ FieldId(f) \in DOMAIN card.items
  THEN ItemValue(card.items[FieldId(f)]) ELSE Null

\* The title, the Department or one of the four numeric fields of a card
\* differs from the entry's value.
Differs(e, card) ==
  \/ hasChanged(Str(e.title), Str(card.name))
  \/ hasChanged(Str(e.dept), Str(ListNameOf(card.idList)))
  \/ \E f \in NumFieldSet : hasChanged(e.num[f], CardFieldValue(card, f))

\* The fetched cards of a pass that a fetched entry references.
Linked(p) ==
  {k \in 1..Len(p.trelloCards) :
     \E j \in 1..Len(p.notionEntries) : p.notionEntries[j].trelloId = p.trelloCards[k].id}

\* The entry the pass takes as the one linked to a card.
LinkedEntry(p, cardId) ==
  p.notionEntries[LastIndex({j \in 1..Len(p.notionEntries) :
                               p.notionEntries[j].trelloId = cardId})]

UpdateEntryCalls(p, cardId) ==
  {n \in 1..Len(p.calls) :
     /\ p.calls[n].ph = "syncTrelloToNotion"
     /\ p.calls[n].op = "updateEntry"
     /\ p.calls[n].arg.trelloId = cardId}

\* C15: once the Board→Database loop of a pass is over, for every fetched card
\* with a linked entry exactly one update call was issued when the title, the
\* Department or one of Reach, Confidence, Effort, Impact differs, for the
\* linked entry and with all the properties of the card, and none when nothing
\* differs; trelloToNotion.updated is the number of update calls that succeeded
\* (plus the cards the deletion step of the pass deleted, which it counts in
\* the same counter).
C15_OneUpdateIffDiffers ==
  \A s \in MainSlots :
    LET p == pass[s]
    IN  (p.failedListings = {} /\ p.pc \notin {"idle", "syncTrelloToNotion"}) =>
          /\ \A k \in Linked(p) :
               LET c == p.trelloCards[k]
                   e == LinkedEntry(p, c.id)
               IN  /\ Cardinality(UpdateEntryCalls(p, c.id))
                        = IF Differs(e, c) THEN 1 ELSE 0
                   /\ \A n \in UpdateEntryCalls(p, c.id) :
                        /\ p.calls[n].id = e.id
                        /\ p.calls[n].arg.title = c.name
                        /\ p.calls[n].arg.dept = ListNameOf(c.idList)
                        /\ p.calls[n].arg.synced = TRUE
                        /\ \A f \in NumericFieldsSet(c) :
                             /\ f \in DOMAIN p.calls[n].arg.num
                             /\ ToString(p.calls[n].arg.num[f].num) = c.items[FieldId(f)].v
          /\ syncStats[Engine(s)].trelloToNotion.updated
               = Cardinality({n \in OkCalls(p, "updateEntry") :
                                p.calls[n].ph = "syncTrelloToNotion"})
                 + Cardinality(OkCalls(p, "deleteCard"))

\* A returned pass has updated the entry of one card, whose Department alone
\* differed, and left alone the entry of another card, where nothing differed.
C15_Witness ==
  LET p == pass["main"]
  IN  /\ p.pc = "done" /\ p.result = "returned"
      /\ syncStats["main"].trelloToNotion.updated = 1
      /\ \E k \in Linked(p) :
           LET c == p.trelloCards[k]
               e == LinkedEntry(p, c.id)
           IN  /\ e.title = c.name
               /\ e.dept # ListNameOf(c.idList)
               /\ \A f \in NumFieldSet : ~hasChanged(e.num[f], CardFieldValue(c, f))
               /\ \E n \in UpdateEntryCalls(p, c.id) : p.calls[n].ok
      /\ \E k \in Linked(p) :
           /\ ~Differs(LinkedEntry(p, p.trelloCards[k].id), p.trelloCards[k])
           /\ UpdateEntryCalls(p, p.trelloCards[k].id) = {}


\* ------------------------------------------------ polling service properties

\* A pass of the service is in flight in slot c.
PassInFlight(c) == checks[c].pc = "sync"

\* C16: a pass the polling service starts after a pass of it failed starts no
\* earlier than the retry delay after the failure, and while a check waits in
\* the retry delay no pass of the service is in flight (the triggers that
\* arrive meanwhile start none).
C16_NoPassBeforeRetryDelayElapsed ==
  /\ \A c \in CheckSlots :
       (PassInFlight(c) /\ lastPass.no > 0 /\ ~lastPass.ok) =>
         checks[c].at >= lastPass.end + retryDelay
  /\ \A c, d \in CheckSlots : checks[c].pc = "delay" => ~PassInFlight(d)
  /\ \A c \in CheckSlots : checks[c].pc = "delay" => service.isSyncing

\* A pass is in flight that started after a failed pass during whose retry
\* delay a trigger was dropped.
C16_Witness ==
  /\ lastPass.no > 0 /\ ~lastPass.ok /\ lastPass.dropped
  /\ \E c \in CheckSlots : PassInFlight(c) /\ checks[c].at >= lastPass.end + retryDelay

\* C17: when the last poll that ended had a successful request and ran on the
\* strategy in use, the strategy's lastSyncTime is the time that poll ended,
\* whatever the callback did.
C17_SinceAdvancedAfterEveryPoll ==
  (lastPoll.no > 0 /\ lastPoll.requestOk /\ lastPoll.gen = pollingStrategy.gen) =>
    pollingStrategy.lastSyncTime = lastPoll.end

\* The same statement for the polls whose callback did not throw.
C17_WhenCallbackReturns ==
  (lastPoll.no > 0 /\ lastPoll.requestOk /\ lastPoll.gen = pollingStrategy.gen
     /\ lastPoll.callback # "threw") =>
    pollingStrategy.lastSyncTime = lastPoll.end

InRange(n) == IsNum(n) /\ minPollInterval <= n.num /\ n.num <= maxPollInterval

\* C18: the interval of the strategy of a running service is within
\* [minPollInterval, maxPollInterval]; startSync fails when the configured
\* interval is outside; updatePollInterval, called with an argument, throws
\* exactly when the argument is not within the range, and then leaves the
\* service and its strategy as they were.
C18_PollIntervalWithinRange ==
  /\ (service.boot = "running" /\ config.client = "SyncService") =>
       InRange(pollingStrategy.syncInterval)
  /\ (service.boot \in {"running", "failed"} /\ config.client = "SyncService") =>
       (service.boot = "failed" <=> (config.missing \/ ~InRange(config.pollInterval)))
  /\ (lastUpdate.count > 0 /\ lastUpdate.n # Undefined) =>
       /\ lastUpdate.threw <=> ~InRange(lastUpdate.n)
       /\ lastUpdate.threw => lastUpdate.same

\* The same statement for the calls of updatePollInterval with a number.
C18_WhenArgumentIsANumber ==
  /\ (service.boot \in {"running", "failed"} /\ config.client = "SyncService") =>
       (service.boot = "failed" <=> (config.missing \/ ~InRange(config.pollInterval)))
  /\ (lastUpdate.count > 0 /\ IsNum(lastUpdate.n)) =>
       /\ lastUpdate.threw <=> ~InRange(lastUpdate.n)
       /\ lastUpdate.threw => lastUpdate.same
       /\ ~lastUpdate.threw =>
            /\ pollingStrategy.syncInterval = lastUpdate.n
            /\ InRange(pollingStrategy.syncInterval)


\* ------------------------------------------------ utils/mapping.js properties

\* The reference definition of valuesDiffer: false when both values are null
\* or undefined, true when exactly one is, for two numbers whether they are
\* more than the tolerance apart (the numbers being the doubles the function
\* receives and the tolerance the double 0.001; NaN is a number that is not
\* apart from anything), otherwise whether the trimmed string forms differ.
valuesDiffer(a, b) ==
  LET none(v) == v \in {Null, Undefined}
      number(v) == v = NaN \/ IsNum(v)
      apart(x, y) == x # NaN /\ y # NaN /\ ExceedsTolerance(x.num, y.num)
  IN  CASE none(a) /\ none(b) -> FALSE
        [] none(a) # none(b) -> TRUE
        [] number(a) /\ number(b) -> apart(a, b) \/ apart(b, a)
        [] OTHER -> Trim(JsString(a)) # Trim(JsString(b))

\* C19: on every pair of values hasChanged returns what the reference
\* definition of valuesDiffer gives.
C19_HasChangedIsValuesDiffer ==
  fn.op = "hasChanged" => fn.result = Bool(valuesDiffer(fn.args[1], fn.args[2]))

\* hasChanged was called on two numbers a thousandth apart whose doubles are
\* not more than the double 0.001 apart, on a padded string, on undefined
\* against null or on NaN against a number, and found no change.
C19_Witness ==
  /\ fn.op = "hasChanged"
  /\ fn.args \in {<<Num(1001), Num(1000)>>, <<Str("A "), Str("A")>>, <<Undefined, Null>>,
                  <<NaN, Num(1000)>>}
  /\ fn.result = Bool(FALSE)

\* hasChanged was called on 1.002 and 1.001, whose doubles are more than the
\* double 0.001 apart, and found a change.
ThousandthApartChanged ==
  /\ fn.op = "hasChanged"
  /\ fn.args = <<Num(1002), Num(1001)>>
  /\ fn.result = Bool(TRUE)

\* The numeric fields of a round trip's result are those set on the record,
\* with the same values.
SameNumbers ==
  LET customFields == fn.args[2]
      back == fn.result.customFields
  IN  /\ \A f \in DOMAIN customFields :
           \E k \in 1..Len(back) :
             /\ back[k][1] = f
             /\ IsNum(back[k][2])
             /\ ToString(back[k][2].num) = JsString(customFields[f])
      /\ \A k \in 1..Len(back) :
           back[k][1] \in NumFieldSet => back[k][1] \in DOMAIN customFields

\* C20, as stated: for every card the round trip yields the card's title and
\* the same values for the numeric fields set on the card.
C20_RoundTripOfEveryCard ==
  fn.op = "roundTrip" =>
    /\ fn.result.update.name = Str(fn.args[1])
    /\ SameNumbers

\* C20: for every card with a title that is not empty the round trip yields
\* the card's title, and for every card the same values for the numeric
\* fields set on the card; for a card with an empty title it yields no title.
C20_RoundTripOfTitledCard ==
  fn.op = "roundTrip" =>
    /\ fn.args[1] # "" => fn.result.update.name = Str(fn.args[1])
    /\ fn.args[1] = "" => fn.result.update.name = Null
    /\ SameNumbers

\* The round trip of a card with a padded title, Reach "0" and Effort "1000".
C20_Witness ==
  /\ fn.op = "roundTrip"
  /\ fn.args[1] = "A "
  /\ DOMAIN fn.args[2] = {"Reach", "Effort"}
  /\ fn.args[2]["Reach"] = Str("0")
  /\ fn.args[2]["Effort"] = Str("1000")
  /\ fn.result.update.name = Str("A ")
  /\ fn.result.customFields = << <<"Reach", Num(0)>>, <<"Effort", Num(1000)>>,
                                 <<"synced", Bool(TRUE)>> >>


\* The entries and cards that are linked at the present state: the entry is
\* not archived, the card is not deleted, and the entry's Trello id is the
\* card's id.
LinkedPairs ==
  {pr \in (DOMAIN entries) \X (DOMAIN cards) :
     /\ ~entries[pr[1]].archived
     /\ CardExists(cards, pr[2])
     /\ entries[pr[1]].trelloId = pr[2]}

\* The two sides of a linked pair agree on the title, on the group and on
\* every numeric field the board defines.
PairAgrees(pr) ==
  /\ ~hasChanged(Str(entries[pr[1]].title), Str(cards[pr[2]].name))
  /\ ~hasChanged(Str(entries[pr[1]].dept), Str(ListNameOf(cards[pr[2]].idList)))
  /\ \A f \in NumFieldSet \cap fieldDefs :
       ~hasChanged(entries[pr[1]].num[f], CardFieldValue(cards[pr[2]], f))

\* The pair was already linked in the listings the pass fetched, and the
\* entry's Department names a list of the board.
LinkedAtStart(p, pr) ==
  /\ \E k \in 1..Len(p.trelloCards) : p.trelloCards[k].id = pr[2]
  /\ \E j \in 1..Len(p.notionEntries) :
       /\ p.notionEntries[j].id = pr[1]
       /\ p.notionEntries[j].trelloId = pr[2]
       /\ \E l \in 1..Len(BoardLists) : BoardLists[l].name = p.notionEntries[j].dept

\* C21: convergence after one pass.  Once a pass has returned with no failed
\* call and an error counter of 0, every pair that was linked when the pass
\* fetched its listings holds the same title, the same group and the same
\* Reach, Confidence, Effort and Impact on both sides.
C21_LinkedPairsAgreeAfterPass ==
  \A s \in MainSlots :
    (/\ pass[s].pc = "done" /\ pass[s].result = "returned"
     /\ FailedCalls(pass[s]) = {} /\ pass[s].failedListings = {}
     /\ syncStats[Engine(s)].errors = 0)
      => \A pr \in LinkedPairs : LinkedAtStart(pass[s], pr) => PairAgrees(pr)


\* ------------------------------------------------ edits by a user
\* A user edits one aspect of a linked pair on one side, on the Trello board or
\* in the Notion database, while the two sides agree: between two passes or
\* while a pass is in flight, between two of its requests (performSync holds
\* no lock on the board or the database).

EditSides == {"trello", "notion"}

EditAspects == {"title", "group"} \cup NumFieldSet

EditedTitle == "A3"

\* The value a user gives to an aspect: a new title, the other list, a new
\* number.
EditedValue(aspect, card) ==
  IF aspect = "title" THEN Str(EditedTitle)
  ELSE IF aspect = "group"
       THEN Str(IF card.idList = DoingListId THEN "Content / Curriculum" ELSE "Doing")
       ELSE Num(2000)

\* The value of an aspect on each side.
CardAspect(card, aspect) ==
  IF aspect = "title" THEN Str(card.name)
  ELSE IF aspect = "group" THEN Str(ListNameOf(card.idList))
       ELSE CardFieldValue(card, aspect)

EntryAspect(entry, aspect) ==
  IF aspect = "title" THEN Str(entry.title)
  ELSE IF aspect = "group" THEN Str(entry.dept)
       ELSE entry.num[aspect]

ExternalEdit(side, e, aspect) ==
  LET c == entries[e].trelloId
      v == EditedValue(aspect, cards[c])
  IN  /\ edit = NoEdit
      /\ <<e, c>> \in LinkedPairs
      /\ PairAgrees(<<e, c>>)
      /\ aspect \in NumFieldSet => aspect \in fieldDefs
      /\ edit' = [side |-> side, entry |-> e, card |-> c, aspect |-> aspect, value |-> v,
                  after |-> nPasses,
                  inPass |-> \E s \in Slots : pass[s].pc \notin {"idle", "done"}]
      /\ IF side = "trello"
         THEN /\ cards' =
                   IF aspect = "title"
                   THEN [cards EXCEPT ![c].name = v.str, ![c].date = MaxDate(cards) + 1]
                   ELSE IF aspect = "group"
                        THEN [cards EXCEPT ![c].idList = ResolvedList(v.str),
                                           ![c].date = MaxDate(cards) + 1]
                        ELSE SetItem(cards, c, FieldId(aspect), "number", v)
              /\ UNCHANGED entries
         ELSE /\ entries' =
                   IF aspect = "title" THEN [entries EXCEPT ![e].title = v.str]
                   ELSE IF aspect = "group" THEN [entries EXCEPT ![e].dept = v.str]
                        ELSE [entries EXCEPT ![e].num[aspect] = v]
              /\ UNCHANGED cards
      /\ UNCHANGED <<fieldDefs, webhook, apiDup, pass, syncStats, nPasses, nFail,
                     pollVars, fn, createdFor, change, timers>>

\* The scheduled script on a board and a database that hold one linked pair
\* on which both sides agree.
InitEdit ==
  /\ fieldDefs \in {AllFieldNames, AllFieldNames \ {"synced", "Notion Link"}}
  /\ cards = Store({CardWith(NewCard(CardC1, "A", DoingListId, 1),
                             (FieldId("Reach") :> Item("number", "1000"))
                               @@ (FieldId("synced") :> Item("checked", "true")),
                             fieldDefs)})
  /\ entries \in {Store({Entry(EntryE1, "A", "Doing", Num(1000), CardC1, TRUE, total)}) :
                    total \in {Null, Num(42000)}}
  /\ webhook = NoRequest
  /\ apiDup = NoDup
  /\ InitControl

\* The pass is followed await by await, so that the edit falls between any
\* two of its requests.
NextEdit ==
  \/ PerformSyncResetStats("main")
  \/ PerformSyncListing("main")
  \/ BodyWithoutCall("main")
  \/ AwaitedCallTakesEffect("main")
  \/ AwaitedCallAnswered("main")
  \/ GetCardsAgain("main")
  \/ \E side \in EditSides, e \in DOMAIN entries, aspect \in EditAspects :
       ExternalEdit(side, e, aspect)

SpecEdit == InitEdit /\ [][NextEdit]_vars

\* The pass that follows an edit made between two passes, in the slot of the
\* scheduled script.
NextPassAfterEdit(p) == edit # NoEdit /\ ~edit.inPass /\ p.no = edit.after + 1

\* The passes are over, no call and no listing failed and no error was
\* counted since the edit.
QuietAfterEdit ==
  /\ edit # NoEdit
  /\ nFail = 0
  /\ \A s \in MainSlots :
       /\ pass[s].pc = "done" /\ pass[s].result = "returned"
       /\ syncStats[Engine(s)].errors = 0

\* An edit made while a pass is in flight is not lost on both sides: when the
\* passes are over, the card or the entry holds the edited value.
EditInPassKeptOnOneSide ==
  (QuietAfterEdit /\ edit.inPass) =>
    \/ ~hasChanged(CardAspect(cards[edit.card], edit.aspect), edit.value)
    \/ ~hasChanged(EntryAspect(entries[edit.entry], edit.aspect), edit.value)

\* C22: a one-sided edit is propagated, not reverted.  After one aspect of a
\* linked pair was edited on one side, the edited side holds the edited value
\* throughout the next pass, and once that pass has returned with no failed
\* call and an error counter of 0 both sides hold the edited value.
C22_OneSidedEditIsPropagated ==
  \A s \in MainSlots :
    NextPassAfterEdit(pass[s]) =>
      LET card == cards[edit.card]
          entry == entries[edit.entry]
      IN  /\ edit.side = "trello" => ~hasChanged(CardAspect(card, edit.aspect), edit.value)
          /\ edit.side = "notion" => ~hasChanged(EntryAspect(entry, edit.aspect), edit.value)
          /\ (/\ pass[s].pc = "done" /\ pass[s].result = "returned"
              /\ FailedCalls(pass[s]) = {} /\ pass[s].failedListings = {}
              /\ syncStats[Engine(s)].errors = 0)
               => /\ ~hasChanged(CardAspect(card, edit.aspect), edit.value)
                  /\ ~hasChanged(EntryAspect(entry, edit.aspect), edit.value)


\* C23: link uniqueness.  At most one entry references each card id, in every
\* state the passes that the polling service and the webhook receiver start
\* can reach from a database where this holds, failing calls included: the
\* polling service starts its passes one after the other and the webhook
\* receiver starts none.
C23_AtMostOneEntryPerCard ==
  \A e1, e2 \in DOMAIN entries :
    (/\ ~entries[e1].archived /\ ~entries[e2].archived
     /\ entries[e1].trelloId # "" /\ entries[e1].trelloId = entries[e2].trelloId)
      => e1 = e2

\* Two passes have run, a call has failed, and the entry a pass created for a
\* card is the one entry that references the card.
C23_Witness ==
  /\ pass["main"].pc = "done" /\ pass["main"].no = 2
  /\ nFail > 0
  /\ \E e \in DOMAIN entries \cap {NewEntryIds[k] : k \in 1..Len(NewEntryIds)} :
       /\ ~entries[e].archived
       /\ CardExists(cards, entries[e].trelloId)
       /\ {d \in DOMAIN entries : entries[d].trelloId = entries[e].trelloId} = {e}


\* C24: no duplicate card.  Over any sequence of passes, failing calls
\* included, createTrelloCardFromNotion creates at most one card for any one
\* entry of the database.
C24_AtMostOneCardPerEntry ==
  \A a, b \in createdFor : a[1] = b[1] => a[2] = b[2]


\* The ids of the cards for which the Board→Database step of a pass created an
\* entry.
CardsWithNewEntry(p) ==
  {p.calls[n].arg.trelloId : n \in {m \in OkCalls(p, "createEntry") : p.calls[m].ph = "syncTrelloToNotion"}}

\* C25: within one pass, a card for which the Board→Database step has just
\* created an entry is not deleted by the deletion step of that pass: no
\* deleteCard call is issued for it.
C25_NewlyLinkedCardNotDeleted ==
  \A s \in MainSlots :
    \A n \in 1..Len(pass[s].calls) :
      pass[s].calls[n].op = "deleteCard" => pass[s].calls[n].id \notin CardsWithNewEntry(pass[s])


\* The card was on the board and open when the pass fetched its listings: it
\* is on the board, the pass did not create it, and it is open or was deleted
\* by the pass itself.
OpenAtStart(p, cardId) ==
  /\ cardId \in DOMAIN cards
  /\ \A n \in OkCalls(p, "createCard") : p.calls[n].id # cardId
  /\ \/ ~cards[cardId].deleted
     \/ \E n \in OkCalls(p, "deleteCard") : p.calls[n].id = cardId

\* C26: no archival while the card is listed.  A pass issues no deletePage
\* call for a fetched entry whose 'Trello ID' is the id of a card that was open
\* on the board, and so in the response of the listing API, when the pass
\* fetched its listings.
C26_EntryOfListedCardNotArchived ==
  \A s \in MainSlots :
    LET p == pass[s]
    IN  \A n \in 1..Len(p.calls), k \in 1..Len(p.notionEntries) :
          (p.calls[n].op = "deletePage" /\ p.calls[n].id = p.notionEntries[k].id)
            => ~OpenAtStart(p, p.notionEntries[k].trelloId)


\* C27: a thrown pass has written nothing.  When performSync throws, the pass
\* has issued no call that creates, changes or deletes a record on either
\* side.
C27_ThrownPassIssuedNoWrite ==
  \A s \in MainSlots : pass[s].result = "thrown" => WriteCalls(pass[s]) = {}


\* ------------------------------------------------ the polling trigger, live
\* The SyncService and its PollingStrategy with time reduced to what the fate
\* of one Board change depends on: now is 0 until a user makes that change and
\* 1 from then on, so that lastSyncTime and the 'since' of a request are 0
\* (before the change) or 1 (after it).  A request is served by Trello in one
\* step and its response reaches checkForChanges in a later one.  The interval timer fires again and
\* again (setInterval), whether or not an earlier checkForChanges has returned.

\* A user changes a card of the board.
BoardChange ==
  /\ now = 0
  /\ now' = 1
  /\ UNCHANGED <<syncVars, fn, edit, createdFor, change, config, service, pollingStrategy,
                 checks, lastPoll, lastPass, lastUpdate, timers>>

\* The interval timer fires: checkForChanges sends its request with
\* since = this.lastSyncTime (kept in 'at' while the request is in flight).
PollStarts(c) ==
  /\ pollingStrategy.isRunning
  /\ checks[c].pc = "idle"
  /\ \A d \in CheckSlots : checks[d].pc = "idle" => c <= d
  /\ checks' = [checks EXCEPT ![c] = [pc |-> "request", gen |-> pollingStrategy.gen,
                                      at |-> pollingStrategy.lastSyncTime, wake |-> 0,
                                      actions |-> 0, holds |-> FALSE]]
  /\ UNCHANGED <<syncVars, fn, edit, createdFor, change, now, config, service, pollingStrategy,
                 lastPoll, lastPass, lastUpdate, timers>>

\* Trello serves the request of a poll: the response lists the actions of the
\* board after 'since' as the board is at that moment.  It holds the change
\* that is followed when the change has been made by then, after the 'since'
\* of the request; a change made while the response is on its way is not in
\* it.  others: the response holds an action other than that change.
TrelloResponds(c, others) ==
  /\ checks[c].pc = "request"
  /\ LET holds == now = 1 /\ checks[c].at = 0
     IN  checks' = [checks EXCEPT ![c] =
                      [@ EXCEPT !.pc = "response", !.holds = holds,
                                !.actions = (IF holds THEN 1 ELSE 0) + (IF others THEN 1 ELSE 0)]]
  /\ UNCHANGED <<syncVars, fn, edit, createdFor, change, now, config, service, pollingStrategy,
                 lastPoll, lastPass, lastUpdate, timers>>

\* checkForChanges from the arrival of the response on.  With no action in
\* the response lastSyncTime is assigned and the callback is not called;
\* with actions handleChanges is called, which returns at once when isSyncing
\* is set and starts a pass otherwise.  A poll reports the change when its
\* response holds it; a pass follows the change when it starts after it.
PollAnswered(c) ==
  /\ checks[c].pc = "response"
  /\ IF onChangeCalls(checks[c].actions) = 0
     THEN /\ checks' = [checks EXCEPT ![c] = IdleCheck]
          /\ pollingStrategy' = Advanced(pollingStrategy, c)
          /\ UNCHANGED <<service, change>>
     ELSE IF SyncInProgress(service)
          THEN /\ checks' = [checks EXCEPT ![c] = IdleCheck]
               /\ pollingStrategy' = Advanced(pollingStrategy, c)
               /\ change' = [change EXCEPT !.reported = @ \/ checks[c].holds]
               /\ UNCHANGED service
          ELSE /\ service' = [service EXCEPT !.isSyncing = TRUE]
               /\ checks' = [checks EXCEPT ![c] = [@ EXCEPT !.pc = "sync", !.at = now]]
               /\ change' = [reported |-> change.reported \/ checks[c].holds,
                             followed |-> change.followed \/ now = 1]
               /\ UNCHANGED pollingStrategy
  /\ UNCHANGED <<syncVars, fn, edit, createdFor, now, config, lastPoll, lastPass, lastUpdate, timers>>

\* runFullSync settles with exit code 0 or another code, as in
\* SyncProcessCloses (lastPass keeps the outcome of the last pass); the retry
\* delay is a step of its own.
PassEnds(c, code) ==
  /\ checks[c].pc = "sync"
  /\ lastPass' = [NoPass EXCEPT !.end = now, !.ok = (code = 0)]
  /\ IF code = 0
     THEN /\ service' = [service EXCEPT !.isSyncing = FALSE]
          /\ checks' = [checks EXCEPT ![c] = IdleCheck]
          /\ pollingStrategy' = Advanced(pollingStrategy, c)
     ELSE /\ checks' = [checks EXCEPT ![c] = [@ EXCEPT !.pc = "delay"]]
          /\ UNCHANGED <<service, pollingStrategy>>
  /\ UNCHANGED <<syncVars, fn, edit, createdFor, change, now, config, lastPoll, lastUpdate, timers>>

\* The timer of handleSyncFailure fires.
RetryOver(c) ==
  /\ checks[c].pc = "delay"
  /\ service' = [service EXCEPT !.isSyncing = FALSE]
  /\ checks' = [checks EXCEPT ![c] = IdleCheck]
  /\ pollingStrategy' = Advanced(pollingStrategy, c)
  /\ UNCHANGED <<syncVars, fn, edit, createdFor, change, now, config, lastPoll, lastPass,
                 lastUpdate, timers>>

\* The service after start(): the strategy is polling, no pass is in flight.
InitLive ==
  /\ cards = Store({})
  /\ entries = Store({})
  /\ fieldDefs = {}
  /\ webhook = NoRequest
  /\ apiDup = NoDup
  /\ pass = [s \in Slots |-> IdlePass]
  /\ syncStats = [e \in Engines |-> ZeroStats]
  /\ nPasses = 0
  /\ nFail = 0
  /\ now = 0
  /\ config = [client |-> "SyncService", missing |-> FALSE, pollInterval |-> Num(DefaultPollInterval)]
  /\ service = [boot |-> "running", isRunning |-> TRUE, isSyncing |-> FALSE]
  /\ pollingStrategy = startPolling(NewPollingStrategy(1, Num(DefaultPollInterval), 0), 0)
  /\ checks = [c \in CheckSlots |-> IdleCheck]
  /\ lastPoll = NoPoll
  /\ lastPass = NoPass
  /\ lastUpdate = NoUpdate
  /\ fn = NoCall
  /\ edit = NoEdit
  /\ createdFor = {}
  /\ change = NoChange
  /\ timers = NoTimers

NextLive ==
  \/ BoardChange
  \/ \E c \in CheckSlots : PollStarts(c)
  \/ \E c \in CheckSlots, others \in BOOLEAN : TrelloResponds(c, others)
  \/ \E c \in CheckSlots : PollAnswered(c)
  \/ \E c \in CheckSlots, code \in {0, 1} : PassEnds(c, code)
  \/ \E c \in CheckSlots : RetryOver(c)

\* Polls and passes keep completing: the timer keeps firing, every request is
\* answered, every pass settles and every retry delay elapses.
SpecLive ==
  /\ InitLive
  /\ [][NextLive]_vars
  /\ WF_vars(\E c \in CheckSlots : PollStarts(c))
  /\ WF_vars(\E c \in CheckSlots, others \in BOOLEAN : TrelloResponds(c, others))
  /\ WF_vars(\E c \in CheckSlots : PollAnswered(c))
  /\ WF_vars(\E c \in CheckSlots, code \in {0, 1} : PassEnds(c, code))
  /\ WF_vars(\E c \in CheckSlots : RetryOver(c))

\* The two trigger sources side by side: the polling service from the moment
\* start() has returned, and requests that reach the webhook receiver at any
\* moment.
NextSources ==
  \/ TickOver /\ TimerFires
  \/ TickOver /\ \E c \in CheckSlots : RequestReturns(c)
  \/ TickOver /\ \E c \in CheckSlots : SyncProcessCloses(c)
  \/ TickOver /\ \E c \in CheckSlots : RetryDelayElapsed(c)
  \/ TickOver /\ \E n \in UpdateInputs : UpdatePollInterval(n)
  \/ StartResumes
  \/ Stop
  \/ TickOver /\ Tick
  \/ \E action \in WebhookPayloads : HandleTrelloWebhook(action)

SpecSources == InitLive /\ [][NextSources]_vars

\* C28: no Board change is lost by the polling trigger.  Every Board change a
\* poll has reported, including one reported while a pass is in flight, is
\* eventually followed by a pass that starts after the change.
C28_ReportedChangeIsFollowedByPass == change.reported ~> change.followed


\* The call changes nothing on the card as syncNotionToTrello fetched it: it
\* writes a title, a list, a numeric field or the synced marker that the card
\* already holds.
WritesSameValue(c, card) ==
  \/ c.op = "updateCard" /\ ~hasChanged(Str(c.arg), Str(card.name))
  \/ c.op = "moveCard" /\ c.arg = card.idList
  \/ /\ c.op = "updateCustomField"
     /\ c.field \in {FieldId(f) : f \in NumFieldSet}
     /\ ~hasChanged(c.arg, getTrelloCustomFieldValue(card, c.field))
  \/ /\ c.op = "updateCheckboxCustomField"
     /\ c.field = FieldId("synced")
     /\ c.arg = Bool(getTrelloCheckboxCustomFieldValue(card, c.field))

\* C29: minimal writes.  In the Database→Board update of a linked pair a call
\* is issued only for an aspect that changed: a title call only when the titles
\* differ, a list move only when the groups differ, a field call for Reach,
\* Confidence, Effort, Impact or the synced marker only when the entry's value
\* differs from the card's.
C29_CallOnlyForChangedAspect ==
  \A s \in MainSlots :
    LET p == pass[s]
    IN  \A n \in 1..Len(p.calls) :
          (p.calls[n].ph = "syncNotionToTrello" /\ p.calls[n].id \in DOMAIN p.cardMap)
            => ~WritesSameValue(p.calls[n], p.cardMap[p.calls[n].id])


\* The entry's 'Trello ID' is not empty and is the id of no card of the board.
Dangling(entry) == entry.trelloId # "" /\ ~CardExists(cards, entry.trelloId)

\* C30: a dangling entry is skipped.  The loop bodies of syncNotionToTrello
\* and of syncTotalScoreToTrello for an entry whose 'Trello ID' is the id of no
\* card issue no call, change neither store and leave the error counter and
\* the created and updated counters as they are; the deletion step does the
\* same unless the entry's synced flag is true.
C30_DanglingEntryIsSkipped ==
  [][\A s \in MainSlots :
       LET p == pass[s]
       IN  (/\ p.pc \in {"syncNotionToTrello", "syncTotalScoreToTrello", "deleteNotion"}
            /\ pass'[s] # p
            /\ Dangling(p.notionEntries[p.i])
            /\ p.pc = "deleteNotion" => ~p.notionEntries[p.i].synced)
             => /\ pass'[s].calls = p.calls
                /\ cards' = cards
                /\ entries' = entries
                /\ syncStats' = syncStats]_vars

\* A pass has returned, on a board that defines 'Total Score' and 'synced',
\* after its three loops went over a dangling entry that is not synced: the
\* entry is not archived and the pass has issued no call and counted nothing.
C30_Witness ==
  \E s \in MainSlots :
    /\ pass[s].pc = "done" /\ pass[s].result = "returned"
    /\ {"Total Score", "synced"} \subseteq fieldDefs
    /\ \E k \in 1..Len(pass[s].notionEntries) :
         /\ Dangling(pass[s].notionEntries[k])
         /\ ~pass[s].notionEntries[k].synced
         /\ ~entries[pass[s].notionEntries[k].id].archived
    /\ Len(pass[s].notionEntries) = 1
    /\ pass[s].calls = <<>>
    /\ syncStats[Engine(s)] = ZeroStats


\* C31: a pair enters the linked state with synced = true.  In the step in
\* which a pass creates the missing counterpart of a record, the entry created
\* for a card is synced, and of an entry and the card created for it and
\* linked to it at least one holds a true synced marker.
C31_NewPairIsSynced ==
  [][/\ \A e \in DOMAIN entries' \ DOMAIN entries : entries'[e].synced
     /\ \A pr \in createdFor' \ createdFor :
          entries'[pr[1]].trelloId = pr[2] =>
            \/ entries'[pr[1]].synced
            \/ getTrelloCheckboxCustomFieldValue(cards'[pr[2]], FieldId("synced"))]_vars


\* C32: the statistics of a pass are its own.  At the step in which a pass
\* returns, the SyncStats of its engine count the entries that pass created
\* and the calls of that pass that failed, and nothing of any other pass, also
\* when another performSync() call on the same engine overlaps with it.
C32_ReturnedStatsCountOwnPass ==
  [][\A s \in Slots :
       (pass[s].pc # "done" /\ pass'[s].pc = "done" /\ pass'[s].result = "returned")
         => /\ syncStats'[Engine(s)].trelloToNotion.created
                 = Cardinality(OkCalls(pass'[s], "createEntry"))
            /\ syncStats'[Engine(s)].errors = Cardinality(FailedCalls(pass'[s]))]_vars


\* The calls a step of the pass in slot s adds to its log.
NewCalls(s) == SubSeq(pass'[s].calls, Len(pass[s].calls) + 1, Len(pass'[s].calls))

\* The calls of the pass p that are outstanding: the remote store has taken
\* them and the pass has not handled their answers.
Outstanding(p) == Len(p.answers)

PhaseRank(ph) ==
  CASE ph = "syncTrelloToNotion" -> 1
    [] ph = "getCards" -> 2
    [] ph = "syncNotionToTrello" -> 3
    [] ph = "syncTotalScoreToTrello" -> 4
    [] ph = "deleteNotion" -> 5
    [] OTHER -> 6

\* C34: the phases of a pass run in a fixed order.  In the call log of a pass
\* every call of the Board→Database loop precedes every call of the
\* Database→Board loop, these precede the calls of the total-score
\* propagation, and these precede every archive and every delete call; an
\* entry is created only by the first, cards are created and changed only by
\* the second and third, and records are archived or deleted only by the
\* deletion step.
C34_PhasesInFixedOrder ==
  \A s \in MainSlots :
    LET calls == pass[s].calls
    IN  /\ \A n, m \in 1..Len(calls) : n < m => PhaseRank(calls[n].ph) <= PhaseRank(calls[m].ph)
        /\ \A n \in 1..Len(calls) :
             /\ calls[n].op = "createEntry" => PhaseRank(calls[n].ph) = 1
             /\ calls[n].op \in {"createCard", "updateCard", "moveCard", "updateCustomField",
                                 "updateTextCustomField", "updateCheckboxCustomField"}
                  => PhaseRank(calls[n].ph) \in {3, 4}
             /\ calls[n].op \in {"deletePage", "deleteCard"} => PhaseRank(calls[n].ph) \in {5, 6}

\* A pass has written in the Board→Database loop, in the Database→Board loop,
\* in the total-score propagation and in the deletion step.
C34_Witness ==
  \E s \in MainSlots :
    /\ pass[s].pc = "done"
    /\ \E n \in OkCalls(pass[s], "updateEntry") \cup OkCalls(pass[s], "createEntry") :
         pass[s].calls[n].ph = "syncTrelloToNotion"
    /\ \E n \in WriteCalls(pass[s]) : pass[s].calls[n].ph = "syncNotionToTrello"
    /\ \E n \in WriteCalls(pass[s]) : pass[s].calls[n].ph = "syncTotalScoreToTrello"
    /\ \E n \in WriteCalls(pass[s]) : PhaseRank(pass[s].calls[n].ph) >= 5


\* C35: one poll calls the change callback at most once, and exactly when its
\* request returned at least one action, however many it returned; a poll
\* whose request returned no action (or failed) calls no callback.  A callback
\* that is still running was called by a poll that returned an action.
C35_OneCallbackPerPollWithActions ==
  /\ lastPoll.invoked <= 1
  /\ lastPoll.invoked = 1 <=> (lastPoll.requestOk /\ lastPoll.actions > 0)
  /\ lastPoll.callback = "none" <=> lastPoll.invoked = 0
  /\ \A c \in CheckSlots : checks[c].pc \in {"sync", "delay"} => checks[c].actions > 0

\* A poll whose request returned two actions is over.
C35_Witness == lastPoll.requestOk /\ lastPoll.actions = 2 /\ lastPoll.callback # "none"


\* The names of the lists of the board.
ListNames == {BoardLists[k].name : k \in 1..Len(BoardLists)}

\* The steps of a pass in which a lookup misses issue no call for it: a linked
\* entry whose Department names no list is not moved, no call names a custom
\* field the board does not define, the total-score propagation and the
\* deletion step issue nothing when their field is not defined, an entry whose
\* card is not in the map issues nothing in the Database→Board loop and in the
\* total-score propagation, and the error counter grows by the failed calls
\* only.
MissesAreSkipped(s) ==
  LET p == pass[s]
      entry == p.notionEntries[p.i]
  IN  /\ (p.pc = "syncNotionToTrello" /\ entry.trelloId # "" /\ entry.dept \notin ListNames)
           => \A n \in 1..Len(NewCalls(s)) : NewCalls(s)[n].op # "moveCard"
      /\ \A n \in 1..Len(NewCalls(s)) :
           /\ NewCalls(s)[n].field # ""
                => NewCalls(s)[n].field \in {FieldId(name) : name \in fieldDefs}
           /\ NewCalls(s)[n].ph = "syncTotalScoreToTrello" => "Total Score" \in fieldDefs
           /\ NewCalls(s)[n].ph \in {"deleteNotion", "deleteTrello"} => "synced" \in fieldDefs
      /\ (/\ p.pc \in {"syncNotionToTrello", "syncTotalScoreToTrello"}
          /\ entry.trelloId # "" /\ entry.trelloId \notin DOMAIN p.cardMap)
           => NewCalls(s) = <<>>
      /\ syncStats'[Engine(s)].errors =
           syncStats[Engine(s)].errors
             + Cardinality({n \in 1..Len(NewCalls(s)) : ~NewCalls(s)[n].ok})

\* C36 as stated: a lookup miss skips the affected step with no remote call
\* and without counting an error, also for an entry without card whose
\* Department names no list.
C36_LookupMissIssuesNoCall ==
  [][\A s \in MainSlots :
       (pass'[s].no = pass[s].no /\ pass'[s] # pass[s]) =>
         /\ MissesAreSkipped(s)
         /\ (/\ pass[s].pc = "syncNotionToTrello"
             /\ pass[s].notionEntries[pass[s].i].trelloId = ""
             /\ pass[s].notionEntries[pass[s].i].dept \notin ListNames)
              => NewCalls(s) = <<>>]_vars

\* C36, amended: a lookup miss skips the affected step with no remote call and
\* without counting an error, except that a card created for an entry whose
\* Department names no list is created in the default group.
C36_LookupMissSkippedOrDefaulted ==
  [][\A s \in MainSlots :
       (pass'[s].no = pass[s].no /\ pass'[s] # pass[s]) =>
         /\ MissesAreSkipped(s)
         /\ (/\ pass[s].pc = "syncNotionToTrello"
             /\ pass[s].notionEntries[pass[s].i].trelloId = ""
             /\ pass[s].notionEntries[pass[s].i].dept \notin ListNames)
              => /\ NewCalls(s) # <<>>
                 /\ NewCalls(s)[1].op = "createCard"
                 /\ NewCalls(s)[1].arg.idList = DefaultGroup.id]_vars

\* A pass is over in which a linked entry named no list while its card was in
\* another list than the entry of the database now names, on a board without
\* the 'synced' field.
C36_Witness ==
  \E s \in MainSlots :
    /\ pass[s].pc = "done" /\ pass[s].result = "returned"
    /\ "synced" \notin fieldDefs
    /\ \E k \in 1..Len(pass[s].notionEntries) :
         /\ pass[s].notionEntries[k].dept \notin ListNames
         /\ pass[s].notionEntries[k].trelloId \in DOMAIN pass[s].cardMap


\* C37: the total-score propagation is the last step of the Database→Board
\* pass and works on the card map that pass fetched.  Every call it issues
\* follows every call of the Database→Board loop of the same pass; a step of
\* it leaves the map as it is, issues no listing call and at most one call,
\* the write of the total score; and for an entry whose total score agrees
\* with the value of its card in the map it issues no call at all.
C37_TotalScoreUsesFetchedMap ==
  [][\A s \in MainSlots :
       LET p == pass[s]
           entry == p.notionEntries[p.i]
       IN  (p.pc = "syncTotalScoreToTrello" /\ pass'[s] # p) =>
             /\ \A n \in 1..Len(p.calls) :
                  p.calls[n].ph \in {"syncTrelloToNotion", "getCards", "syncNotionToTrello",
                                     "syncTotalScoreToTrello"}
             /\ pass'[s].cardMap = p.cardMap
             /\ Len(NewCalls(s)) <= 1
             /\ \A n \in 1..Len(NewCalls(s)) :
                  /\ NewCalls(s)[n].op = "updateCustomField"
                  /\ NewCalls(s)[n].field = FieldId("Total Score")
                  /\ NewCalls(s)[n].ph = "syncTotalScoreToTrello"
             /\ (/\ entry.trelloId \in DOMAIN p.cardMap
                 /\ ~hasChanged(getTrelloCustomFieldValue(p.cardMap[entry.trelloId],
                                                          FieldId("Total Score")),
                                entry.total))
                  => NewCalls(s) = <<>>
             /\ pass'[s].pc # "syncNotionToTrello"]_vars

\* The total-score propagation of a pass is over: it issued no call for an
\* entry whose card in the map has the entry's total score.
C37_Witness ==
  \E s \in MainSlots :
    /\ pass[s].pc \in {"deleteNotion", "deleteTrello", "done"}
    /\ pass[s].result # "thrown"
    /\ "Total Score" \in fieldDefs
    /\ \E k \in 1..Len(pass[s].notionEntries) :
         LET entry == pass[s].notionEntries[k]
         IN  /\ ~IsNull(entry.total)
             /\ entry.trelloId \in DOMAIN pass[s].cardMap
             /\ ~hasChanged(getTrelloCustomFieldValue(pass[s].cardMap[entry.trelloId],
                                                      FieldId("Total Score")),
                            entry.total)
             /\ \A n \in 1..Len(pass[s].calls) :
                  pass[s].calls[n].ph = "syncTotalScoreToTrello" => pass[s].calls[n].id # entry.trelloId


\* ------------------------------------------------ start, stop and updatePollInterval
\* The calls of the SyncService's start(), stop() and updatePollInterval() by
\* their synchronous parts: start() is async and assigns this.isRunning only
\* after its await of startPolling, so another call can run in between.
MaxCalls == 5

\* A call is made: it is counted, and noted when a start() was still awaiting.
Called(t, op) ==
  [t EXCEPT !.last = op, !.calls = @ + 1, !.overlapped = @ \/ t.starting > 0]

\* start() up to its await: it returns when this.isRunning, else it calls
\* startPolling of the current strategy, which sets the interval timer unless
\* that strategy is running.
StartCalled ==
  /\ timers.calls < MaxCalls
  /\ IF service.isRunning
     THEN /\ timers' = Called(timers, "start")
          /\ UNCHANGED pollingStrategy
     ELSE /\ pollingStrategy' = startPolling(pollingStrategy, now)
          /\ timers' = [Called(timers, "start") EXCEPT
                          !.active = IF pollingStrategy.isRunning THEN @
                                     ELSE @ \cup {pollingStrategy.gen},
                          !.starting = @ + 1]
  /\ UNCHANGED <<syncVars, now, config, service, checks, lastPoll, lastPass, lastUpdate, fn,
                 edit, createdFor, change>>

\* stop(): it returns when not this.isRunning, else stopPolling of the current
\* strategy clears its timer and this.isRunning = false.
StopCalled ==
  /\ timers.calls < MaxCalls
  /\ IF ~service.isRunning
     THEN /\ timers' = Called(timers, "stop")
          /\ UNCHANGED <<service, pollingStrategy>>
     ELSE /\ pollingStrategy' = stopPolling(pollingStrategy)
          /\ service' = [service EXCEPT !.isRunning = FALSE]
          /\ timers' = [Called(timers, "stop") EXCEPT !.active = @ \ {pollingStrategy.gen}]
  /\ UNCHANGED <<syncVars, now, config, checks, lastPoll, lastPass, lastUpdate, fn, edit,
                 createdFor, change>>

\* updatePollInterval(newInterval) up to the await of its start(): the range
\* check, stop() when the service was running, a new strategy in place of the
\* current one, and start() up to its await when the service was running.
UpdatePollIntervalCalled(newInterval) ==
  /\ timers.calls < MaxCalls
  /\ IF \/ JsLess(newInterval, Num(minPollInterval))
        \/ JsLess(Num(maxPollInterval), newInterval)
     THEN /\ timers' = Called(timers, "updatePollInterval")
          /\ UNCHANGED <<service, pollingStrategy>>
     ELSE LET wasRunning == service.isRunning
              fresh == NewPollingStrategy(pollingStrategy.gen + 1, newInterval, now)
          IN  /\ pollingStrategy' = IF wasRunning THEN startPolling(fresh, now) ELSE fresh
              /\ service' = [service EXCEPT !.isRunning = FALSE]
              /\ timers' = [Called(timers, "updatePollInterval") EXCEPT
                              !.active = IF wasRunning
                                         THEN (@ \ {pollingStrategy.gen}) \cup {fresh.gen}
                                         ELSE @,
                              !.starting = IF wasRunning THEN @ + 1 ELSE @]
  /\ UNCHANGED <<syncVars, now, config, checks, lastPoll, lastPass, lastUpdate, fn, edit,
                 createdFor, change>>

\* A constructed SyncService that has not been started.
InitTimers ==
  /\ cards = Store({})
  /\ entries = Store({})
  /\ fieldDefs = {}
  /\ webhook = NoRequest
  /\ apiDup = NoDup
  /\ pass = [s \in Slots |-> IdlePass]
  /\ syncStats = [e \in Engines |-> ZeroStats]
  /\ nPasses = 0
  /\ nFail = 0
  /\ now = 0
  /\ config = [client |-> "SyncService", missing |-> FALSE,
               pollInterval |-> Num(DefaultPollInterval)]
  /\ service = [boot |-> "running", isRunning |-> FALSE, isSyncing |-> FALSE]
  /\ pollingStrategy = NewPollingStrategy(1, Num(DefaultPollInterval), 0)
  /\ checks = [c \in CheckSlots |-> IdleCheck]
  /\ lastPoll = NoPoll
  /\ lastPass = NoPass
  /\ lastUpdate = NoUpdate
  /\ fn = NoCall
  /\ edit = NoEdit
  /\ createdFor = {}
  /\ change = NoChange
  /\ timers = NoTimers

NextTimers ==
  \/ StartCalled
  \/ StartResumes
  \/ StopCalled
  \/ \E n \in {Num(29999), Num(30000)} : UpdatePollIntervalCalled(n)

SpecTimers == InitTimers /\ [][NextTimers]_vars

\* C38: under any sequence and interleaving of start(), stop() and
\* updatePollInterval() calls at most one interval timer is set, and none is
\* set when stop() has returned with isRunning false.
C38_AtMostOneTimerNoneAfterStop ==
  /\ Cardinality(timers.active) <= 1
  /\ (timers.last = "stop" /\ ~service.isRunning) => timers.active = {}

\* The same when no call is made while a start() awaits.
AwaitedCallsKeepOneTimer ==
  timers.overlapped
    \/ /\ Cardinality(timers.active) <= 1
       /\ (timers.last = "stop" /\ ~service.isRunning) => timers.active = {}

\* The first half of C38 alone: at most one interval timer is set.
TwoTimersNeverSet == Cardinality(timers.active) <= 1


\* C39: the polling service waits the retry delay only after a pass that
\* failed fatally.  While handleChanges waits in handleSyncFailure, the pass
\* that just ended is one in which performSync threw; a pass that returned its
\* stats, with per-record errors or without, is followed by no retry delay.
C39_RetryDelayOnlyAfterThrownPass ==
  \A c \in CheckSlots : checks[c].pc = "delay" => lastPass.result = "thrown"

\* The retry delay follows exactly the passes whose process ended with another
\* exit code than 0: performSync threw or the stats it returned count an error.
RetryDelayAfterThrownOrErrors ==
  \A c \in CheckSlots :
    checks[c].pc = "delay" => (lastPass.result = "thrown" \/ lastPass.errors > 0)


\* The number of calls of an operation a step of the pass in slot s issued.
Made(s, op) == Cardinality({n \in 1..Len(NewCalls(s)) : NewCalls(s)[n].op = op})

\* A step of a loop of the pass in slot s in which no call failed counts what
\* it did: the Board→Database loop counts an entry created or updated, the
\* Database→Board loop a card created or, when it issued a call for a linked
\* entry, a card updated, and the total-score propagation counts nothing.
LoopStepCounts(s) ==
  LET p == pass[s]
      old == syncStats[Engine(s)]
      new == syncStats'[Engine(s)]
  IN  (/\ pass'[s].no = p.no /\ pass'[s] # p
       /\ \A n \in 1..Len(NewCalls(s)) : NewCalls(s)[n].ok) =>
        /\ p.pc = "syncTrelloToNotion" =>
             /\ new.trelloToNotion.created = old.trelloToNotion.created + Made(s, "createEntry")
             /\ new.trelloToNotion.updated = old.trelloToNotion.updated + Made(s, "updateEntry")
             /\ new.notionToTrello = old.notionToTrello
        /\ p.pc = "syncNotionToTrello" =>
             /\ new.notionToTrello.created = old.notionToTrello.created + Made(s, "createCard")
             /\ new.notionToTrello.updated = old.notionToTrello.updated
                  + (IF NewCalls(s) # <<>> /\ Made(s, "createCard") = 0 THEN 1 ELSE 0)
             /\ new.trelloToNotion = old.trelloToNotion
        /\ p.pc \in {"getCards", "syncTotalScoreToTrello"} =>
             /\ new.trelloToNotion = old.trelloToNotion
             /\ new.notionToTrello = old.notionToTrello

\* C40: the created and updated counters of a pass count the records created
\* and updated in their direction, and the deletion step counts nothing in
\* them: a step that archives an entry or deletes a card leaves the four
\* counters as they are.
C40_DeletionsAreNotCounted ==
  [][\A s \in MainSlots :
       /\ LoopStepCounts(s)
       /\ (pass[s].pc \in {"deleteNotion", "deleteTrello"} /\ pass'[s].no = pass[s].no) =>
            /\ syncStats'[Engine(s)].trelloToNotion = syncStats[Engine(s)].trelloToNotion
            /\ syncStats'[Engine(s)].notionToTrello = syncStats[Engine(s)].notionToTrello]_vars

\* What the deletion step does count: an archived entry in
\* notionToTrello.updated and a deleted card in trelloToNotion.updated.
DeletionsAreCountedAsUpdates ==
  [][\A s \in MainSlots :
       /\ LoopStepCounts(s)
       /\ (pass[s].pc \in {"deleteNotion", "deleteTrello"} /\ pass'[s].no = pass[s].no) =>
            /\ syncStats'[Engine(s)].trelloToNotion.created
                 = syncStats[Engine(s)].trelloToNotion.created
            /\ syncStats'[Engine(s)].notionToTrello.created
                 = syncStats[Engine(s)].notionToTrello.created
            /\ syncStats'[Engine(s)].notionToTrello.updated
                 = syncStats[Engine(s)].notionToTrello.updated
                     + Cardinality({n \in 1..Len(NewCalls(s)) :
                                      NewCalls(s)[n].op = "deletePage" /\ NewCalls(s)[n].ok})
            /\ syncStats'[Engine(s)].trelloToNotion.updated
                 = syncStats[Engine(s)].trelloToNotion.updated
                     + Cardinality({n \in 1..Len(NewCalls(s)) :
                                      NewCalls(s)[n].op = "deleteCard" /\ NewCalls(s)[n].ok})]_vars

====
